---- MODULE Spec2Model ----
(***************************************************************************)
(* Model of the AST archive package (src/archive/archive.go): saving a     *)
(* parsed file as a bundle {source, filename, parse mode, cleaned tree,    *)
(* metadata}, loading it back by re-parsing the stored source, verifying   *)
(* fidelity, and the directory operations LoadAll / WalkArchives.          *)
(*                                                                         *)
(* go/parser, go/format, encoding/gob and os are the collaborators the     *)
(* package calls.  They are modelled on a small token language:            *)
(*   a source text is a sequence of tokens, the first one the package      *)
(*   clause; "sp" is redundant white space (dropped by the scanner),       *)
(*   "//" a comment, "import" a parenthesised import declaration,          *)
(*   "var" the declaration `var x int`, "func" the declaration             *)
(*   `func f() { _ = x }`, and "BAD" a token no declaration can start with.*)
(*   Every token stands on a line of its own, with no blank line between.  *)
(***************************************************************************)
EXTENDS Naturals, Sequences, FiniteSets, TLC

VARIABLES source, mode, file, perr, registry, fs, last, heap, held, procs, archive, cmd

vars == <<source, mode, file, perr, registry, fs, last, heap, held, procs, archive, cmd>>

(* ---------------------------------------------------------------- bounds *)
\* longest body (tokens after the package clause) of a source text
MaxToks == 2
\* the visitor of a walk fails on one of its first MaxFailAt calls, or never
MaxFailAt == 2
\* the caller saves and loads archives while fewer than MaxInstances trees
\* have been allocated, and asks for a tree at most MaxLoads times
MaxInstances == 4
MaxLoads == 2
\* most .go files a directory the tool works on holds
MaxFiles == 2

\* a nil pointer is the empty sequence, a pointer to v the sequence <<v>>
Nil == <<>>
Ptr(v) == <<v>>
Deref(p) == p[1]

RECURSIVE SeqsUpTo(_, _)
SeqsUpTo(S, n) ==
    IF n = 0 THEN {<<>>}
    ELSE LET shorter == SeqsUpTo(S, n - 1)
         IN  shorter \cup {Append(s, t) : s \in {x \in shorter : Len(x) = n - 1}, t \in S}

PackageNames == {"main", "lib"}
BodyTokens == {"sp", "//", "import", "var", "func", "BAD"}
DeclTokens == {"import", "var", "func", "BAD"}
Texts == {<<p>> \o b : p \in PackageNames, b \in SeqsUpTo(BodyTokens, MaxToks)}

\* parser.Mode is a bit set; the two bits the package uses
ParseComments == "ParseComments"
SkipObjectResolution == "SkipObjectResolution"
Modes == SUBSET {ParseComments, SkipObjectResolution}

(* ------------------------------------------------------------- go/parser *)
\* the ast.Decl a declaration token parses to
DeclKind(tok) ==
    CASE tok = "import" -> "*ast.GenDecl(import)"
      [] tok = "var"    -> "*ast.GenDecl(var)"
      [] tok = "func"   -> "*ast.FuncDecl"
      [] OTHER          -> "*ast.BadDecl"

DeclToken(kind) ==
    CASE kind = "*ast.GenDecl(import)" -> "import"
      [] kind = "*ast.GenDecl(var)"    -> "var"
      [] kind = "*ast.FuncDecl"        -> "func"
      [] OTHER                         -> "BAD"

\* number of declaration tokens among the first n tokens of body
RECURSIVE DeclsBefore(_, _)
DeclsBefore(body, n) ==
    IF n = 0 THEN 0
    ELSE DeclsBefore(body, n - 1) + (IF body[n] \in DeclTokens THEN 1 ELSE 0)

\* the identifiers of one declaration that the resolver may give an Obj:
\* `var x int` declares x; `func f() { _ = x }` declares f and uses x,
\* which resolves only when the file declares x.
DeclIdents(tok, resolve, declaresX) ==
    CASE tok = "var"  -> <<[Name |-> "x", Obj |-> resolve]>>
      [] tok = "func" -> <<[Name |-> "f", Obj |-> resolve],
                           [Name |-> "x", Obj |-> resolve /\ declaresX]>>
      [] OTHER        -> <<>>

\* parser.ParseFile(fset, filename, src, mode): (file, err).  A syntax error
\* yields a partial tree holding ast.BadDecl nodes together with the error.
ParseFile(src, m) ==
    LET body      == Tail(src)
        resolve   == SkipObjectResolution \notin m
        toks      == SelectSeq(body, LAMBDA t : t \in DeclTokens)
        declaresX == \E i \in 1..Len(toks) : toks[i] = "var"
        cpos      == {i \in 1..Len(body) : body[i] = "//"}
        posSeq    == [i \in 1..Len(body) |-> DeclsBefore(body, i)]
        cidx      == SelectSeq([i \in 1..Len(body) |-> i], LAMBDA i : i \in cpos)
    IN  [file |-> [Name     |-> [Name |-> Head(src), Obj |-> FALSE],
                   Decls    |-> [i \in 1..Len(toks) |->
                                   [Kind   |-> DeclKind(toks[i]),
                                    Idents |-> DeclIdents(toks[i], resolve, declaresX)]],
                   Comments |-> IF ParseComments \in m
                                THEN [k \in 1..Len(cidx) |-> posSeq[cidx[k]]]
                                ELSE <<>>,
                   Scope    |-> IF resolve
                                THEN <<[Objects |->
                                         {DeclIdents(toks[i], TRUE, declaresX)[1].Name :
                                            i \in {j \in 1..Len(toks) : toks[j] \in {"var", "func"}}}]>>
                                ELSE Nil],
         err  |-> \E i \in 1..Len(body) : body[i] = "BAD"]

(* ------------------------------------------------------------- go/format *)
Imports(f) == SelectSeq(f.Decls, LAMBDA d : d.Kind = "*ast.GenDecl(import)")

HasBadDecl(f) == \E i \in 1..Len(f.Decls) : f.Decls[i].Kind = "*ast.BadDecl"

\* the printer: comments whose position precedes declaration i+1 are
\* flushed before it; with a file set that does not hold the tree's
\* positions every comment is flushed at the end of the file.
RECURSIVE CommentsAt(_, _)
CommentsAt(cs, pos) ==
    IF cs = <<>> THEN <<>>
    ELSE (IF Head(cs) = pos THEN <<"//">> ELSE <<>>) \o CommentsAt(Tail(cs), pos)

RECURSIVE PrintFrom(_, _, _)
PrintFrom(f, i, ownFset) ==
    IF i > Len(f.Decls)
    THEN IF ownFset THEN CommentsAt(f.Comments, Len(f.Decls))
         ELSE [k \in 1..Len(f.Comments) |-> "//"]
    ELSE (IF ownFset THEN CommentsAt(f.Comments, i - 1) ELSE <<>>)
           \o <<DeclToken(f.Decls[i].Kind)>> \o PrintFrom(f, i + 1, ownFset)

\* faulty variant: the printer loses the comments
FormatNode_DropsComments(f, ownFset) ==
    IF Len(Imports(f)) > 0 /\ HasBadDecl(f)
    THEN [text |-> <<>>, err |-> TRUE]
    ELSE [text |-> <<f.Name.Name>> \o [i \in 1..Len(f.Decls) |-> DeclToken(f.Decls[i].Kind)],
          err  |-> FALSE]

\* format.Node(dst, fset, file): (text, err).  A file with a parenthesised
\* import declaration is printed and re-parsed to sort the imports, which
\* fails when the printed text does not parse.
FormatNode(f, ownFset) ==
    IF Len(Imports(f)) > 0 /\ HasBadDecl(f)
    THEN [text |-> <<>>, err |-> TRUE]
    ELSE [text |-> <<f.Name.Name>> \o PrintFrom(f, 1, ownFset), err |-> FALSE]

(* ---------------------------------------------------------- encoding/gob *)
\* the concrete types RegisterAllASTTypes hands to gob.Register
ASTTypes ==
    {"*ast.BadExpr", "*ast.Ident", "*ast.Ellipsis", "*ast.BasicLit", "*ast.FuncLit",
     "*ast.CompositeLit", "*ast.ParenExpr", "*ast.SelectorExpr", "*ast.IndexExpr",
     "*ast.IndexListExpr", "*ast.SliceExpr", "*ast.TypeAssertExpr", "*ast.CallExpr",
     "*ast.StarExpr", "*ast.UnaryExpr", "*ast.BinaryExpr", "*ast.KeyValueExpr",
     "*ast.BadStmt", "*ast.DeclStmt", "*ast.EmptyStmt", "*ast.LabeledStmt",
     "*ast.ExprStmt", "*ast.SendStmt", "*ast.IncDecStmt", "*ast.AssignStmt",
     "*ast.GoStmt", "*ast.DeferStmt", "*ast.ReturnStmt", "*ast.BranchStmt",
     "*ast.BlockStmt", "*ast.IfStmt", "*ast.CaseClause", "*ast.SwitchStmt",
     "*ast.TypeSwitchStmt", "*ast.CommClause", "*ast.SelectStmt", "*ast.ForStmt",
     "*ast.RangeStmt", "*ast.BadDecl", "*ast.GenDecl", "*ast.FuncDecl",
     "*ast.ImportSpec", "*ast.ValueSpec", "*ast.TypeSpec", "*ast.ArrayType",
     "*ast.StructType", "*ast.FuncType", "*ast.InterfaceType", "*ast.MapType",
     "*ast.ChanType", "*ast.Field", "*ast.FieldList", "*ast.File", "*ast.Package",
     "*ast.Comment", "*ast.CommentGroup"}

\* faulty variant: a second registration unregisters a type
RegisterAllASTTypes_Forgets(reg) ==
    IF reg = {} THEN ASTTypes ELSE reg \ {"*ast.GenDecl"}

\* RegisterAllASTTypes(): registering a type again leaves the registry as it is
RegisterAllASTTypes(reg) == reg \cup ASTTypes

\* the registered name of a declaration's concrete type
TypeName(kind) ==
    CASE kind \in {"*ast.GenDecl(import)", "*ast.GenDecl(var)"} -> "*ast.GenDecl"
      [] OTHER -> kind

\* the concrete types behind the interface-typed fields of a bundle
InterfaceTypes(b) ==
    IF b.CleanedAST = Nil THEN {}
    ELSE {TypeName(Deref(b.CleanedAST).Decls[i].Kind) :
            i \in 1..Len(Deref(b.CleanedAST).Decls)}

ZeroBundle ==
    [SourceCode |-> <<>>, Filename |-> "", ParseMode |-> {}, CleanedAST |-> Nil,
     Metadata |-> <<>>]

\* gob sends a field only when it is not the zero value of its type
SentFields(b) ==
    {f \in DOMAIN ZeroBundle : b[f] # ZeroBundle[f]}

\* gob.NewEncoder(&buf).Encode(&bundle): a stream of two messages, the type
\* definition and the value; an interface value of an unregistered type is
\* an error.
Encode(b, reg) ==
    IF ~(InterfaceTypes(b) \subseteq reg)
    THEN [data |-> <<>>, err |-> TRUE]
    ELSE [data |-> <<[msg |-> "type", name |-> "SimpleASTBundle"],
                     [msg |-> "value", sent |-> SentFields(b),
                      val |-> [f \in SentFields(b) |-> b[f]]]>>,
          err  |-> FALSE]

\* gob.NewDecoder(r).Decode(&bundle): fields that were not sent keep their
\* zero value; a stream that ends early, or that is no gob stream, fails.
Decode(data, reg) ==
    IF /\ Len(data) = 2
       /\ data[1] = [msg |-> "type", name |-> "SimpleASTBundle"]
    THEN LET v == data[2]
             b == [f \in DOMAIN ZeroBundle |->
                     IF f \in v.sent THEN v.val[f] ELSE ZeroBundle[f]]
         IN  IF InterfaceTypes(b) \subseteq reg
             THEN [bundle |-> b, err |-> FALSE]
             ELSE [bundle |-> ZeroBundle, err |-> TRUE]
    ELSE [bundle |-> ZeroBundle, err |-> TRUE]

(* --------------------------------------------------------------------- os *)
\* the directory the archives live in, in the order os.ReadDir lists it
\* (sorted by file name)
DirEntries == <<"a.asta", "b.asta", "notes.txt", "sub.asta">>
Names == {DirEntries[i] : i \in 1..Len(DirEntries)}

Absent == [kind |-> "absent", data |-> <<>>]
Directory == [kind |-> "dir", data |-> <<>>]
RegularFile(data) == [kind |-> "file", data |-> data]

\* os.ReadFile(name)
ReadFile(fsys, name) ==
    IF fsys[name].kind = "file"
    THEN [data |-> fsys[name].data, err |-> FALSE]
    ELSE [data |-> <<>>, err |-> TRUE]

\* what the operating system lets a write do: complete, fail to open the
\* file, or fail after n messages have reached the file
WriteOutcomes(data) ==
    {[kind |-> "ok", n |-> Len(data)], [kind |-> "open", n |-> 0]}
      \cup {[kind |-> "short", n |-> n] : n \in 0..(Len(data) - 1)}

\* os.WriteFile(name, data, 0644): open with O_WRONLY|O_CREATE|O_TRUNC,
\* write, close.  The file is truncated as soon as it is open.
WriteFile(fsys, name, data, wr) ==
    IF fsys[name].kind = "dir" \/ wr.kind = "open"
    THEN [fs |-> fsys, err |-> TRUE]
    ELSE [fs  |-> [fsys EXCEPT ![name] = RegularFile(SubSeq(data, 1, wr.n))],
          err |-> wr.kind # "ok"]

(* ----------------------------------------------------------- archive.go *)
NoError == "<nil>"

\* deepCopyAndClean(file): format with a fresh file set, parse the text
\* without object resolution; both errors are dropped and the parser's
\* (possibly partial, possibly empty) tree is returned.
EmptyFile ==
    [Name |-> [Name |-> "", Obj |-> FALSE], Decls |-> <<>>, Comments |-> <<>>,
     Scope |-> Ptr([Objects |-> {}])]

deepCopyAndClean(f) ==
    LET text == FormatNode(f, FALSE).text
    IN  IF text = <<>>
        THEN Ptr(EmptyFile)
        ELSE Ptr(ParseFile(text, {SkipObjectResolution}).file)

\* the errors deepCopyAndClean drops: that of format.Node, whose result it
\* does not look at, and that of the parser, which it assigns to _
deepCopyAndCleanErrs(f) ==
    LET fmt == FormatNode(f, FALSE)
    IN  (IF fmt.err THEN {"format.Node"} ELSE {})
          \cup (IF fmt.text = <<>> \/ ParseFile(fmt.text, {SkipObjectResolution}).err
                THEN {"parser.ParseFile"} ELSE {})

\* faulty variant: the bundle records the mode deepCopyAndClean parses with
MakeBundle_SkipResolution(f, sourceCode, filename) ==
    [SourceCode |-> sourceCode,
     Filename   |-> filename,
     ParseMode  |-> {ParseComments, SkipObjectResolution},
     CleanedAST |-> deepCopyAndClean(f),
     Metadata   |-> [original_package |-> f.Name.Name,
                     num_declarations |-> Len(f.Decls),
                     num_imports      |-> Len(Imports(f))]]

\* the bundle SaveASTWithSourcePreservation builds from a formatted file
MakeBundle(f, sourceCode, filename) ==
    [SourceCode |-> sourceCode,
     Filename   |-> filename,
     ParseMode  |-> {ParseComments},
     CleanedAST |-> deepCopyAndClean(f),
     Metadata   |-> [original_package |-> f.Name.Name,
                     num_declarations |-> Len(f.Decls),
                     num_imports      |-> Len(Imports(f))]]

\* faulty variant: the source is formatted with a fresh file set, as deepCopyAndClean does
SaveASTWithSourcePreservation_FreshFset(f, filename, outputFile, reg, fsys, wr) ==
    LET reg1 == RegisterAllASTTypes(reg)
        fmt  == FormatNode(f, FALSE)
        enc  == Encode(MakeBundle(f, fmt.text, filename), reg1)
        w    == WriteFile(fsys, outputFile, enc.data, wr)
    IN  IF fmt.err
        THEN [registry |-> reg1, fs |-> fsys, err |-> "failed to format AST to source"]
        ELSE IF enc.err
        THEN [registry |-> reg1, fs |-> fsys, err |-> "failed to encode bundle"]
        ELSE [registry |-> reg1, fs |-> w.fs,
              err |-> IF w.err THEN "write failed" ELSE NoError]

\* faulty variant: the output file is created before the tree is formatted
SaveASTWithSourcePreservation_CreatesFirst(f, filename, outputFile, reg, fsys, wr) ==
    LET reg1 == RegisterAllASTTypes(reg)
        fmt  == FormatNode(f, TRUE)
        enc  == Encode(MakeBundle(f, fmt.text, filename), reg1)
        w    == WriteFile(fsys, outputFile, enc.data, wr)
        made == WriteFile(fsys, outputFile, <<>>, [kind |-> "ok", n |-> 0]).fs
    IN  IF fmt.err
        THEN [registry |-> reg1, fs |-> made, err |-> "failed to format AST to source"]
        ELSE IF enc.err
        THEN [registry |-> reg1, fs |-> made, err |-> "failed to encode bundle"]
        ELSE [registry |-> reg1, fs |-> w.fs,
              err |-> IF w.err THEN "write failed" ELSE NoError]

\* SaveASTWithSourcePreservation(file, fset, filename, outputFile):
\* the registry, the file system and the error it leaves
SaveASTWithSourcePreservation(f, filename, outputFile, reg, fsys, wr) ==
    LET reg1 == RegisterAllASTTypes(reg)
        fmt  == FormatNode(f, TRUE)
        enc  == Encode(MakeBundle(f, fmt.text, filename), reg1)
        w    == WriteFile(fsys, outputFile, enc.data, wr)
    IN  IF fmt.err
        THEN [registry |-> reg1, fs |-> fsys, err |-> "failed to format AST to source"]
        ELSE IF enc.err
        THEN [registry |-> reg1, fs |-> fsys, err |-> "failed to encode bundle"]
        ELSE [registry |-> reg1, fs |-> w.fs,
              err |-> IF w.err THEN "write failed" ELSE NoError]

\* faulty variant: the load hands back the stored snapshot when the archive has one
LoadASTWithSourceReconstruction_ReadsSnapshot(filename, reg, fsys) ==
    LET reg1 == RegisterAllASTTypes(reg)
        rd   == ReadFile(fsys, filename)
        dec  == Decode(rd.data, reg1)
        p    == ParseFile(dec.bundle.SourceCode, dec.bundle.ParseMode)
        fail(e) == [registry |-> reg1, file |-> Nil, fset |-> Nil, src |-> <<>>, err |-> e]
    IN  IF rd.err THEN fail("failed to read file")
        ELSE IF dec.err THEN fail("failed to decode bundle")
        ELSE IF p.err THEN fail("failed to re-parse source")
        ELSE [registry |-> reg1,
              file |-> IF dec.bundle.CleanedAST # Nil THEN dec.bundle.CleanedAST
                       ELSE Ptr(p.file),
              fset |-> Ptr("fset"), src |-> dec.bundle.SourceCode, err |-> NoError]

\* faulty variant: a failed re-parse hands back the parser's partial tree
LoadASTWithSourceReconstruction_PartialTree(filename, reg, fsys) ==
    LET reg1 == RegisterAllASTTypes(reg)
        rd   == ReadFile(fsys, filename)
        dec  == Decode(rd.data, reg1)
        p    == ParseFile(dec.bundle.SourceCode, dec.bundle.ParseMode)
        fail(e) == [registry |-> reg1, file |-> Nil, fset |-> Nil, src |-> <<>>, err |-> e]
    IN  IF rd.err THEN fail("failed to read file")
        ELSE IF dec.err THEN fail("failed to decode bundle")
        ELSE [registry |-> reg1, file |-> Ptr(p.file), fset |-> Ptr("fset"),
              src |-> dec.bundle.SourceCode,
              err |-> IF p.err THEN "failed to re-parse source" ELSE NoError]

\* LoadASTWithSourceReconstruction(filename): (file, fset, source, err)
LoadASTWithSourceReconstruction(filename, reg, fsys) ==
    LET reg1 == RegisterAllASTTypes(reg)
        rd   == ReadFile(fsys, filename)
        dec  == Decode(rd.data, reg1)
        p    == ParseFile(dec.bundle.SourceCode, dec.bundle.ParseMode)
        fail(e) == [registry |-> reg1, file |-> Nil, fset |-> Nil, src |-> <<>>, err |-> e]
    IN  IF rd.err THEN fail("failed to read file")
        ELSE IF dec.err THEN fail("failed to decode bundle")
        ELSE IF p.err THEN fail("failed to re-parse source")
        ELSE [registry |-> reg1, file |-> Ptr(p.file), fset |-> Ptr("fset"),
              src |-> dec.bundle.SourceCode, err |-> NoError]

\* Load(filename): (*ASTArchive, err)
Load(filename, reg, fsys) ==
    LET reg1 == RegisterAllASTTypes(reg)
        rd   == ReadFile(fsys, filename)
        dec  == Decode(rd.data, reg1)
    IN  IF rd.err
        THEN [registry |-> reg1, archive |-> Nil, err |-> "failed to read file"]
        ELSE IF dec.err
        THEN [registry |-> reg1, archive |-> Nil, err |-> "failed to decode bundle"]
        ELSE [registry |-> reg1, archive |-> Ptr([bundle |-> dec.bundle]), err |-> NoError]

\* ASTArchive getters
GetSourceCode(a) == a.bundle.SourceCode
GetFilename(a) == a.bundle.Filename

\* a metadata value read with a type assertion: the value under the key
\* when the map has one, else the zero value the getter falls back to
MetadataOr(a, key, zero) ==
    IF key \in DOMAIN a.bundle.Metadata THEN a.bundle.Metadata[key] ELSE zero

GetPackageName(a) == MetadataOr(a, "original_package", "")
DeclarationCount(a) == MetadataOr(a, "num_declarations", 0)

\* faulty variant: the import count is read from the declaration count
ImportCount_CountsDeclarations(a) == MetadataOr(a, "num_declarations", 0)

ImportCount(a) == MetadataOr(a, "num_imports", 0)

\* ASTArchive.GetAST(): (file, fset, err), a parse of the stored source with
\* the stored mode
GetAST(a) ==
    LET p == ParseFile(a.bundle.SourceCode, a.bundle.ParseMode)
    IN  IF p.err
        THEN [file |-> Nil, fset |-> Nil, err |-> "failed to reconstruct AST"]
        ELSE [file |-> Ptr(p.file), fset |-> Ptr("fset"), err |-> NoError]

\* one allocated *ast.File: the place that allocated it, the load call it
\* was allocated in (0: in no call that returns a tree), and its value
Instance(site, call, val) == [site |-> site, call |-> call, val |-> val]

\* the snapshot instance gob allocates when it decodes a bundle that holds one
DecodedInstances(b, call) ==
    IF b.CleanedAST = Nil THEN <<>>
    ELSE <<Instance("gob.Decode", call, Deref(b.CleanedAST))>>

\* the instance deepCopyAndClean allocates in a save that gets as far as it
SaveInstances(f) ==
    IF FormatNode(f, TRUE).err THEN <<>>
    ELSE <<Instance("deepCopyAndClean", 0, Deref(deepCopyAndClean(f)))>>

\* faulty variant: the load hands back the decoded snapshot when there is one
LoadInstances_ReturnsSnapshot(filename, reg, fsys, call) ==
    LET rd   == ReadFile(fsys, filename)
        dec  == Decode(rd.data, RegisterAllASTTypes(reg))
        p    == ParseFile(dec.bundle.SourceCode, dec.bundle.ParseMode)
        snap == DecodedInstances(dec.bundle, call)
    IN  IF rd.err \/ dec.err
        THEN [objs |-> <<>>, ret |-> 0, text |-> <<>>, mode |-> {}]
        ELSE [objs |-> snap \o <<Instance("parser.ParseFile", call, p.file)>>,
              ret  |-> IF p.err THEN 0 ELSE 1,
              text |-> dec.bundle.SourceCode,
              mode |-> dec.bundle.ParseMode]

\* the instances a call of LoadASTWithSourceReconstruction allocates, in
\* order, which of them it returns (ret, 0: none), and the text and the
\* mode it read from the archive
LoadInstances(filename, reg, fsys, call) ==
    LET rd   == ReadFile(fsys, filename)
        dec  == Decode(rd.data, RegisterAllASTTypes(reg))
        p    == ParseFile(dec.bundle.SourceCode, dec.bundle.ParseMode)
        snap == DecodedInstances(dec.bundle, call)
    IN  IF rd.err \/ dec.err
        THEN [objs |-> <<>>, ret |-> 0, text |-> <<>>, mode |-> {}]
        ELSE [objs |-> snap \o <<Instance("parser.ParseFile", call, p.file)>>,
              ret  |-> IF p.err THEN 0 ELSE Len(snap) + 1,
              text |-> dec.bundle.SourceCode,
              mode |-> dec.bundle.ParseMode]

\* the instance a call of GetAST allocates and whether it returns it
GetASTInstances(a, call) ==
    LET p == ParseFile(a.bundle.SourceCode, a.bundle.ParseMode)
    IN  [objs |-> <<Instance("parser.ParseFile", call, p.file)>>,
         ret  |-> IF p.err THEN 0 ELSE 1,
         text |-> a.bundle.SourceCode,
         mode |-> a.bundle.ParseMode]

\* strings.HasSuffix(s, suffix)
HasSuffix(s, suffix) ==
    /\ Len(s) >= Len(suffix)
    /\ SubSeq(s, Len(s) - Len(suffix) + 1, Len(s)) = suffix

\* os.ReadDir(dir): the entries of the directory sorted by name, or an error
\* when there is no such directory
Dirs == {"corpus", "missing"}

ReadDir(fsys, dir) ==
    IF dir # "corpus"
    THEN [entries |-> <<>>, err |-> TRUE]
    ELSE [entries |-> SelectSeq(DirEntries, LAMBDA n : fsys[n].kind # "absent"),
          err     |-> FALSE]

\* faulty variant: no entry is taken for a directory
IsDir_Never(fsys, name) == FALSE

IsDir(fsys, name) == fsys[name].kind = "dir"

\* faulty variant: a failed load returns the archives loaded so far
RECURSIVE LoadAllFrom_KeepsLoaded(_, _, _, _, _)
LoadAllFrom_KeepsLoaded(entries, i, archives, reg, fsys) ==
    IF i > Len(entries)
    THEN [registry |-> reg, archives |-> archives, err |-> NoError]
    ELSE IF IsDir(fsys, entries[i]) \/ ~HasSuffix(entries[i], ".asta")
    THEN LoadAllFrom_KeepsLoaded(entries, i + 1, archives, reg, fsys)
    ELSE LET r == Load(entries[i], reg, fsys)
         IN  IF r.err # NoError
             THEN [registry |-> r.registry, archives |-> archives,
                   err |-> "failed to load " \o entries[i] \o ": " \o r.err]
             ELSE LoadAllFrom_KeepsLoaded(entries, i + 1,
                                          Append(archives, Deref(r.archive)),
                                          r.registry, fsys)

\* the loop of LoadAll from entry i on, archives being the list so far
RECURSIVE LoadAllFrom(_, _, _, _, _)
LoadAllFrom(entries, i, archives, reg, fsys) ==
    IF i > Len(entries)
    THEN [registry |-> reg, archives |-> archives, err |-> NoError]
    ELSE IF IsDir(fsys, entries[i]) \/ ~HasSuffix(entries[i], ".asta")
    THEN LoadAllFrom(entries, i + 1, archives, reg, fsys)
    ELSE LET r == Load(entries[i], reg, fsys)
         IN  IF r.err # NoError
             THEN [registry |-> r.registry, archives |-> <<>>,
                   err |-> "failed to load " \o entries[i] \o ": " \o r.err]
             ELSE LoadAllFrom(entries, i + 1, Append(archives, Deref(r.archive)),
                              r.registry, fsys)

\* LoadAll(dir): ([]*ASTArchive, err); a nil slice is the empty sequence
LoadAll(dir, reg, fsys) ==
    LET rd == ReadDir(fsys, dir)
    IN  IF rd.err
        THEN [registry |-> reg, archives |-> <<>>, err |-> "failed to read directory"]
        ELSE LoadAllFrom(rd.entries, 1, <<>>, reg, fsys)

\* the visitor the caller passes to the walk: it notes the archive it is
\* given and fails on its failAt-th call (never when failAt is 0)
Visit(calls, entry, failAt) ==
    [calls |-> Append(calls, entry),
     err   |-> IF Len(calls) + 1 = failAt THEN "intentional error" ELSE NoError]

\* faulty variant: the walk goes on after the visitor's error and returns it at the end
RECURSIVE WalkFrom_GoesOn(_, _, _, _, _, _)
WalkFrom_GoesOn(entries, i, calls, failAt, reg, fsys) ==
    IF i > Len(entries)
    THEN [registry |-> reg, calls |-> calls,
          err |-> IF failAt >= 1 /\ Len(calls) >= failAt
                  THEN "intentional error" ELSE NoError]
    ELSE IF IsDir(fsys, entries[i]) \/ ~HasSuffix(entries[i], ".asta")
    THEN WalkFrom_GoesOn(entries, i + 1, calls, failAt, reg, fsys)
    ELSE LET r == Load(entries[i], reg, fsys)
             v == Visit(calls, entries[i], failAt)
         IN  IF r.err # NoError
             THEN [registry |-> r.registry, calls |-> calls,
                   err |-> "failed to load " \o entries[i] \o ": " \o r.err]
             ELSE WalkFrom_GoesOn(entries, i + 1, v.calls, failAt, r.registry, fsys)

\* faulty variant: the walk passes over an archive that does not load
RECURSIVE WalkFrom_SkipsUnloadable(_, _, _, _, _, _)
WalkFrom_SkipsUnloadable(entries, i, calls, failAt, reg, fsys) ==
    IF i > Len(entries)
    THEN [registry |-> reg, calls |-> calls, err |-> NoError]
    ELSE IF IsDir(fsys, entries[i]) \/ ~HasSuffix(entries[i], ".asta")
    THEN WalkFrom_SkipsUnloadable(entries, i + 1, calls, failAt, reg, fsys)
    ELSE LET r == Load(entries[i], reg, fsys)
             v == Visit(calls, entries[i], failAt)
         IN  IF r.err # NoError
             THEN WalkFrom_SkipsUnloadable(entries, i + 1, calls, failAt, r.registry, fsys)
             ELSE IF v.err # NoError
             THEN [registry |-> r.registry, calls |-> v.calls, err |-> v.err]
             ELSE WalkFrom_SkipsUnloadable(entries, i + 1, v.calls, failAt,
                                           r.registry, fsys)

\* the loop of WalkArchives from entry i on, calls being the visitor's calls so far
RECURSIVE WalkFrom(_, _, _, _, _, _)
WalkFrom(entries, i, calls, failAt, reg, fsys) ==
    IF i > Len(entries)
    THEN [registry |-> reg, calls |-> calls, err |-> NoError]
    ELSE IF IsDir(fsys, entries[i]) \/ ~HasSuffix(entries[i], ".asta")
    THEN WalkFrom(entries, i + 1, calls, failAt, reg, fsys)
    ELSE LET r == Load(entries[i], reg, fsys)
             v == Visit(calls, entries[i], failAt)
         IN  IF r.err # NoError
             THEN [registry |-> r.registry, calls |-> calls,
                   err |-> "failed to load " \o entries[i] \o ": " \o r.err]
             ELSE IF v.err # NoError
             THEN [registry |-> r.registry, calls |-> v.calls, err |-> v.err]
             ELSE WalkFrom(entries, i + 1, v.calls, failAt, r.registry, fsys)

\* WalkArchives(dir, fn): err, and the calls fn received
WalkArchives(dir, failAt, reg, fsys) ==
    LET rd == ReadDir(fsys, dir)
    IN  IF rd.err
        THEN [registry |-> reg, calls |-> <<>>, err |-> "failed to read directory"]
        ELSE WalkFrom(rd.entries, 1, <<>>, failAt, reg, fsys)

\* ast.Inspect over a file counting the identifiers whose Obj is set
RECURSIVE CountObjs(_)
CountObjs(idents) ==
    IF idents = <<>> THEN 0
    ELSE (IF Head(idents).Obj THEN 1 ELSE 0) + CountObjs(Tail(idents))

RECURSIVE InspectDecls(_)
InspectDecls(decls) ==
    IF decls = <<>> THEN 0
    ELSE CountObjs(Head(decls).Idents) + InspectDecls(Tail(decls))

InspectIdentObjs(f) == CountObjs(<<f.Name>>) + InspectDecls(f.Decls)

\* an error built by fmt.Errorf: the message and the values formatted into it
Errorf(msg, args) == [msg |-> msg, args |-> args]
NilError == Errorf(NoError, <<>>)

\* faulty variant: the verifier stops after the scope checks
VerifyPerfectFidelity_NoIdentCount(original, rest) ==
    LET orig == FormatNode(original, TRUE)
        rst  == FormatNode(rest, TRUE)
    IN  IF orig.err THEN Errorf("failed to format original", <<>>)
        ELSE IF rst.err THEN Errorf("failed to format restored", <<>>)
        ELSE IF orig.text # rst.text THEN Errorf("source code does not match", <<>>)
        ELSE IF (original.Scope = Nil) # (rest.Scope = Nil)
        THEN Errorf("scope preservation mismatch", <<>>)
        ELSE IF /\ original.Scope # Nil
                /\ rest.Scope # Nil
                /\ Cardinality(Deref(original.Scope).Objects)
                      # Cardinality(Deref(rest.Scope).Objects)
        THEN Errorf("scope objects count mismatch: %d vs %d",
                    <<Cardinality(Deref(original.Scope).Objects),
                      Cardinality(Deref(rest.Scope).Objects)>>)
        ELSE NilError

\* faulty variant: the scopes are compared before the texts
VerifyPerfectFidelity_ScopeFirst(original, rest) ==
    LET orig == FormatNode(original, TRUE)
        rst  == FormatNode(rest, TRUE)
        origIdents == InspectIdentObjs(original)
        restIdents == InspectIdentObjs(rest)
    IN  IF orig.err THEN Errorf("failed to format original", <<>>)
        ELSE IF rst.err THEN Errorf("failed to format restored", <<>>)
        ELSE IF (original.Scope = Nil) # (rest.Scope = Nil)
        THEN Errorf("scope preservation mismatch", <<>>)
        ELSE IF orig.text # rst.text THEN Errorf("source code does not match", <<>>)
        ELSE IF /\ original.Scope # Nil
                /\ rest.Scope # Nil
                /\ Cardinality(Deref(original.Scope).Objects)
                      # Cardinality(Deref(rest.Scope).Objects)
        THEN Errorf("scope objects count mismatch: %d vs %d",
                    <<Cardinality(Deref(original.Scope).Objects),
                      Cardinality(Deref(rest.Scope).Objects)>>)
        ELSE IF origIdents # restIdents
        THEN Errorf("identifier object count mismatch: %d vs %d",
                    <<origIdents, restIdents>>)
        ELSE NilError

\* VerifyPerfectFidelity(original, restored, originalFset, restoredFset)
VerifyPerfectFidelity(original, rest) ==
    LET orig == FormatNode(original, TRUE)
        rst  == FormatNode(rest, TRUE)
        origIdents == InspectIdentObjs(original)
        restIdents == InspectIdentObjs(rest)
    IN  IF orig.err THEN Errorf("failed to format original", <<>>)
        ELSE IF rst.err THEN Errorf("failed to format restored", <<>>)
        ELSE IF orig.text # rst.text THEN Errorf("source code does not match", <<>>)
        ELSE IF (original.Scope = Nil) # (rest.Scope = Nil)
        THEN Errorf("scope preservation mismatch", <<>>)
        ELSE IF /\ original.Scope # Nil
                /\ rest.Scope # Nil
                /\ Cardinality(Deref(original.Scope).Objects)
                      # Cardinality(Deref(rest.Scope).Objects)
        THEN Errorf("scope objects count mismatch: %d vs %d",
                    <<Cardinality(Deref(original.Scope).Objects),
                      Cardinality(Deref(rest.Scope).Objects)>>)
        ELSE IF origIdents # restIdents
        THEN Errorf("identifier object count mismatch: %d vs %d",
                    <<origIdents, restIdents>>)
        ELSE NilError

\* the file name the caller gives its source, as the tests do ("simple.go")
FilenameOf(src) == Head(src) \o ".go"

(* ------------------------------------------------------------ analyzer.go *)
\* GetAllNodeTypes(): the static catalog of node types
GetAllNodeTypes ==
    <<"*ast.BadExpr", "*ast.Ident", "*ast.Ellipsis", "*ast.BasicLit", "*ast.FuncLit",
      "*ast.CompositeLit", "*ast.ParenExpr", "*ast.SelectorExpr", "*ast.IndexExpr",
      "*ast.IndexListExpr", "*ast.SliceExpr", "*ast.TypeAssertExpr", "*ast.CallExpr",
      "*ast.StarExpr", "*ast.UnaryExpr", "*ast.BinaryExpr", "*ast.KeyValueExpr",
      "*ast.BadStmt", "*ast.DeclStmt", "*ast.EmptyStmt", "*ast.LabeledStmt",
      "*ast.ExprStmt", "*ast.SendStmt", "*ast.IncDecStmt", "*ast.AssignStmt",
      "*ast.GoStmt", "*ast.DeferStmt", "*ast.ReturnStmt", "*ast.BranchStmt",
      "*ast.BlockStmt", "*ast.IfStmt", "*ast.CaseClause", "*ast.SwitchStmt",
      "*ast.TypeSwitchStmt", "*ast.CommClause", "*ast.SelectStmt", "*ast.ForStmt",
      "*ast.RangeStmt", "*ast.BadDecl", "*ast.GenDecl", "*ast.FuncDecl",
      "*ast.ImportSpec", "*ast.ValueSpec", "*ast.TypeSpec", "*ast.File",
      "*ast.Package", "*ast.Comment", "*ast.CommentGroup", "*ast.Field",
      "*ast.FieldList", "*ast.ArrayType", "*ast.StructType", "*ast.FuncType",
      "*ast.InterfaceType", "*ast.MapType", "*ast.ChanType">>

\* the comment group at a position, as the nodes fmt.Sprintf("%T", n) names:
\* the comments on the lines between two declarations form one group
GroupAt(f, pos) ==
    LET n == Len(CommentsAt(f.Comments, pos))
    IN  IF n = 0 THEN <<>>
        ELSE <<"*ast.CommentGroup">> \o [k \in 1..n |-> "*ast.Comment"]

\* the nodes of a declaration in the order ast.Walk reaches them, doc being
\* the comment group on the lines before it (its Doc).  `var x int` holds
\* the identifiers x and int, `func f() { _ = x }` the identifiers f, _, x.
DeclNodes(d, doc) ==
    CASE d.Kind = "*ast.GenDecl(import)" ->
             <<"*ast.GenDecl">> \o doc \o <<"*ast.ImportSpec", "*ast.BasicLit">>
      [] d.Kind = "*ast.GenDecl(var)" ->
             <<"*ast.GenDecl">> \o doc \o <<"*ast.ValueSpec", "*ast.Ident", "*ast.Ident">>
      [] d.Kind = "*ast.FuncDecl" ->
             <<"*ast.FuncDecl">> \o doc
               \o <<"*ast.Ident", "*ast.FuncType", "*ast.FieldList", "*ast.BlockStmt",
                    "*ast.AssignStmt", "*ast.Ident", "*ast.Ident">>
      [] OTHER -> <<"*ast.BadDecl">>

RECURSIVE InspectFrom(_, _)
InspectFrom(f, i) ==
    IF i > Len(f.Decls) THEN <<>>
    ELSE DeclNodes(f.Decls[i], GroupAt(f, i - 1)) \o InspectFrom(f, i + 1)

\* ast.Inspect(file, fn): the non-nil nodes fn is called with.  For a File,
\* ast.Walk goes through Doc, Name and Decls; it does not go through
\* File.Comments.
Inspect(f) == <<"*ast.File", "*ast.Ident">> \o InspectFrom(f, 1)

\* all the nodes of a file: those under Name and Decls, and the comment
\* group after the last declaration, which File.Comments alone holds
FileNodes(f) == Inspect(f) \o GroupAt(f, Len(f.Decls))

\* os.ReadFile(filePath) of a Go source file: the caller's source is at
\* FilenameOf(source), no other source file exists
ReadSource(filePath, src) ==
    IF filePath = FilenameOf(src)
    THEN [data |-> src, err |-> FALSE]
    ELSE [data |-> <<>>, err |-> TRUE]

\* AnalyzeFile(filePath): (*AnalysisResult, err)
AnalyzeFile(filePath, src) ==
    LET rd   == ReadSource(filePath, src)
        p    == ParseFile(rd.data, {ParseComments})
        walk == Inspect(p.file)
        tags == {walk[i] : i \in 1..Len(walk)}
    IN  IF rd.err THEN [result |-> Nil, err |-> "failed to read file"]
        ELSE IF p.err THEN [result |-> Nil, err |-> "failed to parse file"]
        ELSE [result |-> Ptr([FileName    |-> filePath,
                              NodeCounts  |-> [t \in tags |->
                                  Cardinality({i \in 1..Len(walk) : walk[i] = t})],
                              TotalNodes  |-> Len(walk),
                              UniqueTypes |-> Cardinality(tags)]),
              err    |-> NoError]

\* AnalyzeDirectory(dirPath): the results of the .go files that could be
\* analysed, in directory order; a file is given by its text and the path
\* it is read from
RECURSIVE AnalyzeFrom(_, _)
AnalyzeFrom(files, i) ==
    IF i > Len(files) THEN <<>>
    ELSE LET r == AnalyzeFile(files[i].path, files[i].src)
         IN  (IF r.err # NoError THEN <<>> ELSE <<Deref(r.result)>>)
               \o AnalyzeFrom(files, i + 1)

AnalyzeDirectory(readErr, files) ==
    IF readErr THEN [results |-> <<>>, err |-> "failed to read directory"]
    ELSE [results |-> AnalyzeFrom(files, 1), err |-> NoError]

\* AggregateResults(results): the counts of all results added up
RECURSIVE AggregateFrom(_, _, _)
AggregateFrom(results, i, counts) ==
    IF i > Len(results) THEN counts
    ELSE LET c == results[i].NodeCounts
         IN  AggregateFrom(results, i + 1,
                 [t \in DOMAIN counts \cup DOMAIN c |->
                    (IF t \in DOMAIN counts THEN counts[t] ELSE 0)
                      + (IF t \in DOMAIN c THEN c[t] ELSE 0)])

RECURSIVE TotalFrom(_, _)
TotalFrom(results, i) ==
    IF i > Len(results) THEN 0
    ELSE results[i].TotalNodes + TotalFrom(results, i + 1)

AggregateResults(results) ==
    LET counts == AggregateFrom(results, 1, <<>>)
    IN  [FileName |-> "Aggregated", NodeCounts |-> counts,
         TotalNodes |-> TotalFrom(results, 1), UniqueTypes |-> Cardinality(DOMAIN counts)]

(* ------------------------------------------------- report: GenerateReport *)
\* the catalog in the order sort.Strings gives it
SortedNodeTypes ==
    <<"*ast.ArrayType", "*ast.AssignStmt", "*ast.BadDecl", "*ast.BadExpr",
      "*ast.BadStmt", "*ast.BasicLit", "*ast.BinaryExpr", "*ast.BlockStmt",
      "*ast.BranchStmt", "*ast.CallExpr", "*ast.CaseClause", "*ast.ChanType",
      "*ast.CommClause", "*ast.Comment", "*ast.CommentGroup", "*ast.CompositeLit",
      "*ast.DeclStmt", "*ast.DeferStmt", "*ast.Ellipsis", "*ast.EmptyStmt",
      "*ast.ExprStmt", "*ast.Field", "*ast.FieldList", "*ast.File", "*ast.ForStmt",
      "*ast.FuncDecl", "*ast.FuncLit", "*ast.FuncType", "*ast.GenDecl",
      "*ast.GoStmt", "*ast.Ident", "*ast.IfStmt", "*ast.ImportSpec",
      "*ast.IncDecStmt", "*ast.IndexExpr", "*ast.IndexListExpr",
      "*ast.InterfaceType", "*ast.KeyValueExpr", "*ast.LabeledStmt", "*ast.MapType",
      "*ast.Package", "*ast.ParenExpr", "*ast.RangeStmt", "*ast.ReturnStmt",
      "*ast.SelectStmt", "*ast.SelectorExpr", "*ast.SendStmt", "*ast.SliceExpr",
      "*ast.StarExpr", "*ast.StructType", "*ast.SwitchStmt", "*ast.TypeAssertExpr",
      "*ast.TypeSpec", "*ast.TypeSwitchStmt", "*ast.UnaryExpr", "*ast.ValueSpec">>

\* sort.Strings on a list of distinct catalog types
SortStrings(ss) ==
    SelectSeq(SortedNodeTypes, LAMBDA t : \E i \in 1..Len(ss) : ss[i] = t)

\* a map's keys as a list; the order of a range over a map is not fixed,
\* and every list built that way is sorted before it is used
Keys(counts) == SelectSeq(SortedNodeTypes, LAMBDA t : t \in DOMAIN counts)

\* the file reports, one per result
FileReports(results) ==
    [i \in 1..Len(results) |->
       [FileName    |-> results[i].FileName,
        NodeTypes   |-> SortStrings(Keys(results[i].NodeCounts)),
        NodeCount   |-> results[i].TotalNodes,
        UniqueTypes |-> results[i].UniqueTypes]]

\* GenerateReport(resultsDir): (*CoverageReport, err); the result of
\* AnalyzePackage is assigned to _
GenerateReport(readErr, files, pkgErr) ==
    LET dir        == AnalyzeDirectory(readErr, files)
        aggregated == AggregateResults(dir.results)
        coveredMap == DOMAIN aggregated.NodeCounts \cup {"*ast.Package"}
        coveredNodes == SelectSeq(GetAllNodeTypes, LAMBDA t : t \in coveredMap)
        missingNodes == SelectSeq(GetAllNodeTypes, LAMBDA t : t \notin coveredMap)
    IN  IF dir.err # NoError
        THEN [report |-> Nil, err |-> "failed to analyze directory: " \o dir.err]
        ELSE [report |-> Ptr([TotalNodeTypes   |-> Len(GetAllNodeTypes),
                              CoveredNodeTypes |-> Len(coveredNodes),
                              CoveredNodes     |-> SortStrings(coveredNodes),
                              MissingNodes     |-> SortStrings(missingNodes),
                              FileReports      |-> FileReports(dir.results)]),
              err    |-> NoError]

(* ------------------------------------------------ serde: DeepCompareAST *)
\* An ast.Node interface value is Nil (the nil interface) or holds one
\* pointer: [type, elem], elem being Nil for a nil pointer of that type and
\* the fields of the struct it points to otherwise.  A field of a struct is
\* [kind, val]: "node" for a field whose type is a pointer type that
\* implements ast.Node (val is [type, elem]), "iface" for a field of an
\* interface type such as ast.Expr (val is an interface value), "nodes" for
\* a []ast.Expr, []ast.Stmt or []ast.Decl (val is a sequence of interface
\* values), "value" for any other field.  Every field of a go/ast node is
\* exported.
Field(kind, val) == [kind |-> kind, val |-> val]
Pointer(type, fields) == [type |-> type, elem |-> Ptr(fields)]
NilPointer(type) == [type |-> type, elem |-> Nil]
Iface(p) == <<p>>

\* the trees parser.ParseFile builds, field by field.  Positions are left
\* out of the token language: every token.Pos field holds 0.
IdentNode(name, obj) ==
    Pointer("*ast.Ident",
            <<Field("value", 0), Field("value", name), Field("value", obj)>>)

\* a comment group of n comments, the nil pointer when n is 0
CommentGroupNode(n) ==
    IF n = 0 THEN NilPointer("*ast.CommentGroup")
    ELSE Pointer("*ast.CommentGroup", <<Field("value", n)>>)

\* `()`: a field list without fields
FieldListNode ==
    Pointer("*ast.FieldList", <<Field("value", 0), Field("value", <<>>), Field("value", 0)>>)

\* `func f() { _ = x }`: no receiver, no type parameters, no results
FuncDeclNode(d, doc) ==
    Pointer("*ast.FuncDecl",
      <<Field("node", CommentGroupNode(doc)),
        Field("node", NilPointer("*ast.FieldList")),
        Field("node", IdentNode(d.Idents[1].Name, d.Idents[1].Obj)),
        Field("node", Pointer("*ast.FuncType",
                        <<Field("value", 0),
                          Field("node", NilPointer("*ast.FieldList")),
                          Field("node", FieldListNode),
                          Field("node", NilPointer("*ast.FieldList"))>>)),
        Field("node", Pointer("*ast.BlockStmt",
                        <<Field("value", 0),
                          Field("nodes",
                            <<Iface(Pointer("*ast.AssignStmt",
                                <<Field("nodes", <<Iface(IdentNode("_", FALSE))>>),
                                  Field("value", 0),
                                  Field("value", "="),
                                  Field("nodes", <<Iface(IdentNode(d.Idents[2].Name,
                                                                   d.Idents[2].Obj))>>)>>))>>),
                          Field("value", 0)>>))>>)

\* `import ( "p" )` and `var x int`: Doc, TokPos, Tok, Lparen, Specs, Rparen;
\* Specs is a []ast.Spec
GenDeclNode(d, doc) ==
    Pointer("*ast.GenDecl",
      <<Field("node", CommentGroupNode(doc)), Field("value", 0),
        Field("value", DeclToken(d.Kind)), Field("value", 0),
        Field("value", d.Idents), Field("value", 0)>>)

BadDeclNode == Pointer("*ast.BadDecl", <<Field("value", 0), Field("value", 0)>>)

DeclNode(d, doc) ==
    CASE d.Kind = "*ast.FuncDecl" -> FuncDeclNode(d, doc)
      [] d.Kind = "*ast.BadDecl"  -> BadDeclNode
      [] OTHER                    -> GenDeclNode(d, doc)

\* the *ast.File of the tree f: Doc, Package, Name, Decls, Scope, Imports,
\* Comments.  No comment precedes the package clause, so Doc is nil.
FileNode(f) ==
    Pointer("*ast.File",
      <<Field("node", NilPointer("*ast.CommentGroup")),
        Field("value", 0),
        Field("node", IdentNode(f.Name.Name, f.Name.Obj)),
        Field("nodes", [i \in 1..Len(f.Decls) |->
                          Iface(DeclNode(f.Decls[i],
                                         Len(CommentsAt(f.Comments, i - 1))))]),
        Field("value", f.Scope),
        Field("value", Len(Imports(f))),
        Field("value", f.Comments)>>)

\* the nodes a field holds that are no nil pointer and no nil interface
FieldChildren(fld) ==
    CASE fld.kind = "node"  -> IF fld.val.elem = Nil THEN {} ELSE {fld.val}
      [] fld.kind = "iface" -> IF fld.val = Nil THEN {} ELSE {Deref(fld.val)}
      [] fld.kind = "nodes" -> {Deref(fld.val[i]) :
                                  i \in {j \in 1..Len(fld.val) : fld.val[j] # Nil}}
      [] OTHER              -> {}

\* the node n and every node below it
RECURSIVE Subtrees(_)
Subtrees(n) ==
    LET fields == Deref(n.elem)
        below  == UNION {FieldChildren(fields[i]) : i \in 1..Len(fields)}
    IN  {n} \cup UNION {Subtrees(c) : c \in below}

\* what a call gives: a return value, or the panic that ends it
NoPanic == "<none>"
Returns(v) == [ret |-> v, panic |-> NoPanic]
Panics(msg) == [ret |-> FALSE, panic |-> msg]

\* fieldA.Interface(): the field as an interface{} value; a nil field of
\* an interface type gives the nil interface, a nil pointer gives an
\* interface that holds the nil pointer
Interface(fld) ==
    CASE fld.kind = "node"  -> Iface(fld.val)
      [] fld.kind = "iface" -> fld.val
      [] OTHER              -> Iface(fld)

RECURSIVE DeepCompareAST(_, _), compareField(_, _), CompareFieldsFrom(_, _, _),
          CompareNodesFrom(_, _, _)

\* the loop of DeepCompareAST over the fields of va, from field i on: va and
\* vb are the reflect.Values after Elem(), Nil being the zero Value that
\* Elem() of a nil pointer gives
CompareFieldsFrom(va, vb, i) ==
    IF va = Nil
    THEN Panics("reflect: call of reflect.Value.NumField on zero Value")
    ELSE IF i > Len(Deref(va)) THEN Returns(TRUE)
    ELSE IF vb = Nil
    THEN Panics("reflect: call of reflect.Value.Field on zero Value")
    ELSE LET c == compareField(Interface(Deref(va)[i]), Interface(Deref(vb)[i]))
         IN  IF c.panic # NoPanic \/ ~c.ret THEN c
             ELSE CompareFieldsFrom(va, vb, i + 1)

\* DeepCompareAST(a, b ast.Node) bool
DeepCompareAST(a, b) ==
    IF a = Nil /\ b = Nil THEN Returns(TRUE)
    ELSE IF a = Nil \/ b = Nil THEN Returns(FALSE)
    ELSE IF Deref(a).type # Deref(b).type THEN Returns(FALSE)
    ELSE CompareFieldsFrom(Deref(a).elem, Deref(b).elem, 1)

\* the loops of compareField over two slices of the same length
CompareNodesFrom(va, vb, i) ==
    IF i > Len(va) THEN Returns(TRUE)
    ELSE LET c == DeepCompareAST(va[i], vb[i])
         IN  IF c.panic # NoPanic \/ ~c.ret THEN c
             ELSE CompareNodesFrom(va, vb, i + 1)

\* compareField(a, b interface{}) bool: the type switch takes the ast.Node
\* case for every interface that holds a pointer to a node type, nil
\* pointers included, and the default case for the nil interface
compareField(a, b) ==
    IF a # Nil /\ "type" \in DOMAIN Deref(a)
    THEN IF b # Nil /\ "type" \in DOMAIN Deref(b)
         THEN DeepCompareAST(a, b)
         ELSE Returns(FALSE)
    ELSE IF a # Nil /\ Deref(a).kind = "nodes"
    THEN IF b # Nil /\ Deref(b).kind = "nodes"
         THEN IF Len(Deref(a).val) # Len(Deref(b).val) THEN Returns(FALSE)
              ELSE CompareNodesFrom(Deref(a).val, Deref(b).val, 1)
         ELSE Returns(FALSE)
    ELSE Returns(a = b)

(* ---------------------------------------------------- archive.go: queries *)
\* ASTArchive.GetCleanedAST()
GetCleanedAST(a) == a.bundle.CleanedAST

\* faulty variant: without a snapshot NodeCount counts the nodes of a parse
\* of the stored source
NodeCount_Reparses(a) ==
    IF a.bundle.CleanedAST = Nil
    THEN Len(Inspect(ParseFile(a.bundle.SourceCode, a.bundle.ParseMode).file))
    ELSE Len(Inspect(Deref(a.bundle.CleanedAST)))

\* ASTArchive.NodeCount(): the nodes ast.Inspect reaches in the snapshot
NodeCount(a) ==
    IF a.bundle.CleanedAST = Nil THEN 0
    ELSE Len(Inspect(Deref(a.bundle.CleanedAST)))

\* ExtractFunctions(archive): ([]*ast.FuncDecl, err)
ExtractFunctions(a) ==
    LET r == GetAST(a)
    IN  IF r.err # NoError THEN [funcs |-> <<>>, err |-> r.err]
        ELSE [funcs |-> SelectSeq(Deref(r.file).Decls,
                                  LAMBDA d : d.Kind = "*ast.FuncDecl"),
              err   |-> NoError]

\* ExtractTypes(archive): ([]*ast.TypeSpec, err); the token language has no
\* type declaration, so no declaration holds a TypeSpec
ExtractTypes(a) ==
    LET r == GetAST(a)
    IN  IF r.err # NoError THEN [types |-> <<>>, err |-> r.err]
        ELSE [types |-> SelectSeq(Deref(r.file).Decls,
                                  LAMBDA d : d.Kind = "*ast.GenDecl(type)"),
              err   |-> NoError]

\* the path literal of the import declaration `import ( "p" )`
ImportPathValue == "\"p\""

\* strings.Trim(s, cutset) for a cutset of one character
RECURSIVE Trim(_, _)
Trim(s, c) ==
    IF Len(s) > 0 /\ SubSeq(s, 1, 1) = c THEN Trim(SubSeq(s, 2, Len(s)), c)
    ELSE IF Len(s) > 0 /\ SubSeq(s, Len(s), Len(s)) = c
    THEN Trim(SubSeq(s, 1, Len(s) - 1), c)
    ELSE s

\* GetImports(archive): the import paths of the snapshot, nil without one
GetImports(a) ==
    LET cleanAST == GetCleanedAST(a)
    IN  IF cleanAST = Nil THEN <<>>
        ELSE [i \in 1..Len(Imports(Deref(cleanAST))) |-> Trim(ImportPathValue, "\"")]

\* FindNodesByType(archive, nodeType): ([]ast.Node, err)
FindNodesByType(a, nodeType) ==
    LET r == GetAST(a)
    IN  IF r.err # NoError THEN [nodes |-> <<>>, err |-> r.err]
        ELSE [nodes |-> SelectSeq(Inspect(Deref(r.file)), LAMBDA t : t = nodeType),
              err   |-> NoError]

\* the methods and functions a consumer calls on a loaded archive, and the
\* node types it looks for
Queries ==
    {"GetSourceCode", "GetFilename", "GetPackageName", "GetAST", "GetCleanedAST",
     "NodeCount", "DeclarationCount", "ImportCount", "ExtractFunctions",
     "ExtractTypes", "GetImports", "FindNodesByType"}

NodeTypes == {"*ast.FuncDecl", "*ast.Comment", "*ast.IfStmt"}

\* faulty variant: NodeCount keeps its result in the metadata of the bundle
Query_CachesNodeCount(q, a, nodeType) ==
    [archive |-> IF q = "NodeCount"
                 THEN [a EXCEPT !.bundle.Metadata =
                         [k \in DOMAIN @ \cup {"node_count"} |->
                            IF k = "node_count" THEN NodeCount(a) ELSE @[k]]]
                 ELSE a,
     ret     |-> IF q = "NodeCount" THEN NodeCount(a) ELSE 0]

\* one call on the archive a: the archive after the call (no method or
\* function assigns to the bundle or to anything it points to) and what
\* the call returns
Query(q, a, nodeType) ==
    [archive |-> a,
     ret     |-> CASE q = "GetSourceCode"    -> GetSourceCode(a)
                   [] q = "GetFilename"      -> GetFilename(a)
                   [] q = "GetPackageName"   -> GetPackageName(a)
                   [] q = "GetAST"           -> GetAST(a)
                   [] q = "GetCleanedAST"    -> GetCleanedAST(a)
                   [] q = "NodeCount"        -> NodeCount(a)
                   [] q = "DeclarationCount" -> DeclarationCount(a)
                   [] q = "ImportCount"      -> ImportCount(a)
                   [] q = "ExtractFunctions" -> ExtractFunctions(a)
                   [] q = "ExtractTypes"     -> ExtractTypes(a)
                   [] q = "GetImports"       -> GetImports(a)
                   [] OTHER                  -> FindNodesByType(a, nodeType)]

(* ------------------------------------------------- generator: WriteASTFiles *)
\* the input directory as os.ReadDir lists it: each name with what is there
\* (a directory, a file that cannot be read, or a file with its text)
InNames == <<"a.go", "b.go", "notes.txt", "sub.go">>

Entry(name, what) == [name |-> name, what |-> what]

\* strings.TrimSuffix(entry.Name(), ".go") + ".asta"
OutPath(name) ==
    (IF HasSuffix(name, ".go") THEN SubSeq(name, 1, Len(name) - 3) ELSE name) \o ".asta"

\* the result of generateASTFile once the file is read and parsed: that of
\* the save r, its error wrapped
Archived(r) ==
    [registry |-> r.registry, fs |-> r.fs,
     err |-> IF r.err # NoError THEN "failed to create AST archive: " \o r.err
             ELSE NoError]

\* generateASTFile(inPath, outPath): read, parse with comments, save
generateASTFile(e, reg, fsys, wr) ==
    IF ~e.what.readable
    THEN [registry |-> reg, fs |-> fsys, err |-> "failed to read source file"]
    ELSE IF ParseFile(e.what.src, {ParseComments}).err
    THEN [registry |-> reg, fs |-> fsys, err |-> "failed to parse file"]
    ELSE Archived(SaveASTWithSourcePreservation(
                     ParseFile(e.what.src, {ParseComments}).file, e.name,
                     OutPath(e.name), reg, fsys, wr))

\* faulty variant: the first file that fails ends the loop
RECURSIVE WriteFrom_StopsAtFailure(_, _, _, _, _, _, _)
WriteFrom_StopsAtFailure(entries, i, generated, warned, reg, fsys, wrs) ==
    IF i > Len(entries)
    THEN [registry |-> reg, fs |-> fsys, generated |-> generated, warned |-> warned]
    ELSE IF entries[i].what.kind = "dir" \/ ~HasSuffix(entries[i].name, ".go")
    THEN WriteFrom_StopsAtFailure(entries, i + 1, generated, warned, reg, fsys, wrs)
    ELSE LET g == generateASTFile(entries[i], reg, fsys, wrs[entries[i].name])
         IN  IF g.err # NoError
             THEN [registry |-> g.registry, fs |-> g.fs, generated |-> generated,
                   warned |-> Append(warned, entries[i].name)]
             ELSE WriteFrom_StopsAtFailure(entries, i + 1, Append(generated, entries[i].name),
                                           warned, g.registry, g.fs, wrs)

\* the loop of WriteASTFiles from entry i on: the files generated and the
\* files warned about so far.  WriteNext is the rest of the loop after
\* generateASTFile has returned g for entry i: a warning and on to the next
\* entry when it failed.
RECURSIVE WriteFrom(_, _, _, _, _, _, _), WriteNext(_, _, _, _, _, _)
WriteFrom(entries, i, generated, warned, reg, fsys, wrs) ==
    IF i > Len(entries)
    THEN [registry |-> reg, fs |-> fsys, generated |-> generated, warned |-> warned]
    ELSE IF entries[i].what.kind = "dir" \/ ~HasSuffix(entries[i].name, ".go")
    THEN WriteFrom(entries, i + 1, generated, warned, reg, fsys, wrs)
    ELSE WriteNext(entries, i, generated, warned,
                   generateASTFile(entries[i], reg, fsys, wrs[entries[i].name]), wrs)

WriteNext(entries, i, generated, warned, g, wrs) ==
    WriteFrom(entries, i + 1,
              IF g.err # NoError THEN generated ELSE Append(generated, entries[i].name),
              IF g.err # NoError THEN Append(warned, entries[i].name) ELSE warned,
              g.registry, g.fs, wrs)

\* what WriteASTFiles returns after the loop gave w: an error when no file
\* was archived
Written(w) ==
    [registry |-> w.registry, fs |-> w.fs, generated |-> w.generated,
     warned |-> w.warned,
     err |-> IF Len(w.generated) = 0 THEN "no Go files processed" ELSE NoError]

\* WriteASTFiles(inDir, outDir): mkErr and readErr tell whether os.MkdirAll
\* and os.ReadDir fail, wrs what the operating system lets each write do
WriteASTFiles(mkErr, readErr, entries, reg, fsys, wrs) ==
    IF mkErr
    THEN [registry |-> reg, fs |-> fsys, generated |-> <<>>, warned |-> <<>>,
          err |-> "failed to create output directory"]
    ELSE IF readErr
    THEN [registry |-> reg, fs |-> fsys, generated |-> <<>>, warned |-> <<>>,
          err |-> "failed to read input directory"]
    ELSE Written(WriteFrom(entries, 1, <<>>, <<>>, reg, fsys, wrs))

(* ---------------------------------------------------------------- main.go *)
\* the configuration flags; flag.Parse() sets the ones the command line names
FlagNames == {"run", "analyze", "report", "generate", "json", "verbose", "all"}
Flags == [FlagNames -> BOOLEAN]

\* faulty variant: the flags are taken as given
Defaulted_AsGiven(fl) == fl

\* main, the two ifs after flag.Parse(): without -run, -analyze, -report
\* and -all the flag all is set, and all sets run, analyze and report
Defaulted(fl) ==
    LET a == fl["all"] \/ (~fl["run"] /\ ~fl["analyze"] /\ ~fl["report"] /\ ~fl["all"])
    IN  [n \in FlagNames |->
           IF n \in {"all", "run", "analyze", "report"} THEN fl[n] \/ a ELSE fl[n]]

\* runTestFiles(dir): every .go file is run, whatever the files before it
\* did; results[i] tells whether `go run` of the i-th file succeeded
runTestFiles(readErr, results) ==
    LET failed == Len(SelectSeq(results, LAMBDA ok : ~ok))
    IN  [executed |-> IF readErr THEN 0 ELSE Len(results),
         err |-> IF readErr THEN "failed to read directory"
                 ELSE IF failed > 0 THEN "file(s) failed to execute"
                 ELSE NoError]

\* analyzeFiles(dir): files that cannot be analysed are warned about
analyzeFiles(readErr) ==
    IF readErr THEN "failed to read directory" ELSE NoError

\* generateASTFiles(inDir, outDir)
generateASTFiles(writeErr) ==
    IF writeErr THEN "failed to generate AST files" ELSE NoError

\* generateCoverageReport(dir): a report that cannot be saved is warned about
generateCoverageReport(reportErr) ==
    IF reportErr THEN "failed to generate report" ELSE NoError

\* what main prints before a phase and, on standard error, when it fails
Heading(ph) ==
    CASE ph = "run"      -> "Running test files..."
      [] ph = "analyze"  -> "Analyzing AST nodes..."
      [] ph = "generate" -> "Generating AST files..."
      [] OTHER           -> "Generating coverage report..."

Complaint(ph) ==
    CASE ph = "run"      -> "Error running tests"
      [] ph = "analyze"  -> "Error analyzing files"
      [] ph = "generate" -> "Error generating AST files"
      [] OTHER           -> "Error generating report"

Banner == "=== Go AST Coverage Test Suite ==="
Success == "All tasks completed successfully!"

\* the process when it starts with the flags of its command line
NewCmd(fl) ==
    [given |-> fl, flags |-> fl, pc |-> "flags", ran |-> <<>>,
     out |-> <<>>, stderr |-> <<>>, status |-> Nil]

\* main up to the banner
ParseFlagsStep(c) ==
    [c EXCEPT !.flags = Defaulted(c.given), !.pc = "run", !.out = <<Banner>>]

\* faulty variant: the process goes on after a phase has failed
PhaseStep_GoesOn(c, ph, next, err) ==
    IF ~c.flags[ph] THEN [c EXCEPT !.pc = next]
    ELSE IF err # NoError
    THEN [c EXCEPT !.pc = next,
                   !.ran = Append(@, ph),
                   !.out = Append(@, Heading(ph)),
                   !.stderr = Append(@, Complaint(ph) \o ": " \o err)]
    ELSE [c EXCEPT !.pc = next, !.ran = Append(@, ph), !.out = Append(@, Heading(ph))]

\* one `if *flag { ... }` block of main: the phase ph with the error err it
\* returned; a phase that fails ends the process with os.Exit(1)
PhaseStep(c, ph, next, err) ==
    IF ~c.flags[ph] THEN [c EXCEPT !.pc = next]
    ELSE IF err # NoError
    THEN [c EXCEPT !.pc = "exited", !.status = Ptr(1),
                   !.ran = Append(@, ph),
                   !.out = Append(@, Heading(ph)),
                   !.stderr = Append(@, Complaint(ph) \o ": " \o err)]
    ELSE [c EXCEPT !.pc = next, !.ran = Append(@, ph), !.out = Append(@, Heading(ph))]

\* the last line of main, and its return
SuccessStep(c) ==
    [c EXCEPT !.pc = "exited", !.status = Ptr(0), !.out = Append(@, Success)]

(* ------------------------------------------------------ concurrent callers *)
\* Two callers run one operation each, on a path of their own, one step of
\* the operation at a time.  A process has the operation's parameters (op,
\* path, tree, name), its position pc, its local variables (text, bundle,
\* data), the file operations it has made (steps), the outcome the
\* operating system gave its write (wr), what its path held at the start
\* (before) and, once done, its result (res).
Procs == {1, 2}
Ops == {"save", "load"}
PathOf(p) == IF p = 1 THEN "a.asta" ELSE "b.asta"

NewProc(op, path, tree, name, before) ==
    [op |-> op, path |-> path, tree |-> tree, name |-> name, before |-> before,
     pc |-> "register", text |-> <<>>, bundle |-> Nil, data |-> <<>>,
     steps |-> <<>>, wr |-> Nil, res |-> Nil]

Finish(q, res) == [q EXCEPT !.pc = "done", !.res = Ptr(res)]

SaveResult(e) == [err |-> e]
LoadResult(f, fset, src, e) == [file |-> f, fset |-> fset, src |-> src, err |-> e]

\* RegisterAllASTTypes() has returned
RegisterStep(ps, p) ==
    [ps EXCEPT ![p].pc = IF ps[p].op = "save" THEN "format" ELSE "read"]

\* format.Node(&buf, fset, file)
FormatStep(ps, p) ==
    LET q   == ps[p]
        fmt == FormatNode(Deref(q.tree), TRUE)
    IN  [ps EXCEPT ![p] =
           IF fmt.err THEN Finish(q, SaveResult("failed to format AST to source"))
           ELSE [q EXCEPT !.pc = "bundle", !.text = fmt.text]]

\* deepCopyAndClean(file) and the bundle literal
BundleStep(ps, p) ==
    LET q == ps[p]
    IN  [ps EXCEPT ![p] =
           [q EXCEPT !.pc = "encode",
                     !.bundle = Ptr(MakeBundle(Deref(q.tree), q.text, q.name))]]

\* faulty variant: the encoders share one buffer
EncodeStep_SharedBuffer(ps, p, reg) ==
    LET q   == ps[p]
        enc == Encode(Deref(q.bundle), reg)
    IN  IF enc.err
        THEN [ps EXCEPT ![p] = Finish(q, SaveResult("failed to encode bundle"))]
        ELSE [o \in DOMAIN ps |->
                IF o = p THEN [q EXCEPT !.pc = "write", !.data = enc.data]
                ELSE [ps[o] EXCEPT !.data = enc.data]]

\* encoder.Encode(&bundle) into the buffer of this call
EncodeStep(ps, p, reg) ==
    LET q   == ps[p]
        enc == Encode(Deref(q.bundle), reg)
    IN  [ps EXCEPT ![p] =
           IF enc.err THEN Finish(q, SaveResult("failed to encode bundle"))
           ELSE [q EXCEPT !.pc = "write", !.data = enc.data]]

\* os.WriteFile(outputFile, gobBuf.Bytes(), 0644): the processes and the
\* file system after it
WriteStep(ps, p, fsys, wr) ==
    LET q == ps[p]
        w == WriteFile(fsys, q.path, q.data, wr)
    IN  [procs |-> [ps EXCEPT ![p] =
                      Finish([q EXCEPT !.wr = Ptr(wr)],
                             SaveResult(IF w.err THEN "write failed" ELSE NoError))],
         fs    |-> w.fs]

\* os.ReadFile(filename)
ReadStep(ps, p, fsys) ==
    LET q  == [ps[p] EXCEPT !.steps = Append(@, "read")]
        rd == ReadFile(fsys, q.path)
    IN  [ps EXCEPT ![p] =
           IF rd.err THEN Finish(q, LoadResult(Nil, Nil, <<>>, "failed to read file"))
           ELSE [q EXCEPT !.pc = "decode", !.data = rd.data]]

\* faulty variant: a decode that fails is tried again
DecodeStep_Retries(ps, p, reg) ==
    LET q   == [ps[p] EXCEPT !.steps = Append(@, "decode")]
        dec == Decode(q.data, reg)
    IN  [ps EXCEPT ![p] =
           IF dec.err /\ Len(q.steps) >= 3
           THEN Finish(q, LoadResult(Nil, Nil, <<>>, "failed to decode bundle"))
           ELSE IF dec.err THEN q
           ELSE [q EXCEPT !.pc = "parse", !.bundle = Ptr(dec.bundle)]]

\* decoder.Decode(&bundle)
DecodeStep(ps, p, reg) ==
    LET q   == [ps[p] EXCEPT !.steps = Append(@, "decode")]
        dec == Decode(q.data, reg)
    IN  [ps EXCEPT ![p] =
           IF dec.err THEN Finish(q, LoadResult(Nil, Nil, <<>>, "failed to decode bundle"))
           ELSE [q EXCEPT !.pc = "parse", !.bundle = Ptr(dec.bundle)]]

\* parser.ParseFile(fset, bundle.Filename, bundle.SourceCode, bundle.ParseMode)
ParseStep(ps, p) ==
    LET q == [ps[p] EXCEPT !.steps = Append(@, "parse")]
        b == Deref(q.bundle)
        r == ParseFile(b.SourceCode, b.ParseMode)
    IN  [ps EXCEPT ![p] =
           IF r.err THEN Finish(q, LoadResult(Nil, Nil, <<>>, "failed to re-parse source"))
           ELSE Finish(q, LoadResult(Ptr(r.file), Ptr("fset"), b.SourceCode, NoError))]

(* ------------------------------------------------------------------ state *)
\* source, mode : the text and the parser mode the caller starts from
\* file, perr   : the caller's parsed tree and whether the parser reported an error
\* registry     : the types registered with gob (process-wide)
\* fs           : the files of the archive directory
\* last         : the operation that ran last, with what it returned
\* heap         : the *ast.File instances allocated so far, in allocation order;
\*                the address of an instance is its index
\* held         : the load calls made so far, each with the address of the
\*                tree it returned
\* procs        : the operations running concurrently, each with its position
\*                and its local variables
\* archive      : the *ASTArchive the consumer of the API holds (nil before a
\*                load has given it one)
\* cmd          : the orchestrator process (main.go): its flags, its position,
\*                the phases it has run, what it has printed, its exit status
\* heap and held are followed in SpecInstances, procs in SpecConcurrent,
\* archive in SpecApi, cmd in SpecMain; the other specifications leave them
\* as they are.

\* the paths the round-trip callers save to and load from, and the paths
\* the callers that fill a corpus save to
RoundTripFiles == {"a.asta", "sub.asta"}
LoadFiles == {"a.asta", "notes.txt", "sub.asta"}
OutputFiles == {"a.asta", "b.asta", "sub.asta"}

\* the sources the corpus is filled from
CorpusTexts == {t \in Texts : Len(t) <= 2}

\* the directory before any archive is written: a sub-directory whose name
\* ends in .asta and a file that is no archive
InitialFs ==
    [n \in Names |->
       CASE n = "sub.asta"  -> Directory
         [] n = "notes.txt" -> RegularFile(<<[msg |-> "text"]>>)
         [] OTHER           -> Absent]

Init ==
    /\ source \in Texts
    /\ mode \in Modes
    /\ file = Nil
    /\ perr = FALSE
    /\ registry = {}
    /\ fs = InitialFs
    /\ last = [op |-> "none"]
    /\ heap = <<>>
    /\ held = <<>>
    /\ archive = Nil
    /\ cmd = Nil
    /\ procs = <<>>

\* the caller parses its source (archive_test.go); tests that ignore the
\* parser's error go on with the partial tree
Parse ==
    /\ file = Nil
    /\ file' = Ptr(ParseFile(source, mode).file)
    /\ perr' = ParseFile(source, mode).err
    /\ last' = [op |-> "Parse"]
    /\ UNCHANGED <<source, mode, registry, fs>>

SaveTo(paths) ==
    /\ file # Nil
    /\ \E outputFile \in paths, wr \in WriteOutcomes(Encode(ZeroBundle, ASTTypes).data) :
         LET r == SaveASTWithSourcePreservation(Deref(file), FilenameOf(source),
                                                outputFile, registry, fs, wr)
         IN  /\ registry' = r.registry
             /\ fs' = r.fs
             /\ last' = [op |-> "Save", outputFile |-> outputFile, err |-> r.err]
    /\ UNCHANGED <<source, mode, file, perr>>

Save == SaveTo(RoundTripFiles)

SaveCorpus == SaveTo(OutputFiles)

LoadRecon ==
    /\ \E filename \in LoadFiles :
         LET r == LoadASTWithSourceReconstruction(filename, registry, fs)
         IN  /\ registry' = r.registry
             /\ last' = [op |-> "LoadASTWithSourceReconstruction", filename |-> filename,
                         file |-> r.file, fset |-> r.fset, src |-> r.src, err |-> r.err]
    /\ UNCHANGED <<source, mode, file, perr, fs>>

LoadOne ==
    /\ \E filename \in LoadFiles :
         LET r == Load(filename, registry, fs)
         IN  /\ registry' = r.registry
             /\ last' = [op |-> "Load", filename |-> filename,
                         archive |-> r.archive, err |-> r.err]
    /\ UNCHANGED <<source, mode, file, perr, fs>>

LoadAllStep ==
    /\ \E dir \in Dirs :
         LET r == LoadAll(dir, registry, fs)
         IN  /\ registry' = r.registry
             /\ last' = [op |-> "LoadAll", dir |-> dir,
                         archives |-> r.archives, err |-> r.err]
    /\ UNCHANGED <<source, mode, file, perr, fs>>

Walk ==
    /\ \E dir \in Dirs, failAt \in 0..MaxFailAt :
         LET r == WalkArchives(dir, failAt, registry, fs)
         IN  /\ registry' = r.registry
             /\ last' = [op |-> "WalkArchives", dir |-> dir, failAt |-> failAt,
                         calls |-> r.calls, err |-> r.err]
    /\ UNCHANGED <<source, mode, file, perr, fs>>

\* the caller verifies the tree a load has just returned against its own
Verify ==
    /\ file # Nil
    /\ last.op \in {"LoadASTWithSourceReconstruction", "given"}
    /\ last.file # Nil
    /\ last' = [op |-> "VerifyPerfectFidelity", restored |-> Deref(last.file),
                err |-> VerifyPerfectFidelity(Deref(file), Deref(last.file))]
    /\ UNCHANGED <<source, mode, file, perr, registry, fs>>

\* a load call as the caller sees it: the address of the tree it got (0: no
\* tree) and the text and mode the tree was parsed from
Held(op, r, base) ==
    [op   |-> op,
     file |-> IF r.ret = 0 THEN 0 ELSE base + r.ret,
     text |-> r.text,
     mode |-> r.mode]

\* the operations with the instances they allocate
ParseTracked ==
    /\ Parse
    /\ heap' = Append(heap, Instance("caller", 0, Deref(file')))
    /\ UNCHANGED <<held, procs, archive, cmd>>

SaveTracked ==
    /\ Len(heap) < MaxInstances
    /\ SaveTo({"a.asta"})
    /\ heap' = heap \o SaveInstances(Deref(file))
    /\ UNCHANGED <<held, procs, archive, cmd>>

LoadReconTracked ==
    /\ Len(held) < MaxLoads
    /\ LET r == LoadASTWithSourceReconstruction("a.asta", registry, fs)
           i == LoadInstances("a.asta", registry, fs, Len(held) + 1)
       IN  /\ registry' = r.registry
           /\ last' = [op |-> "LoadASTWithSourceReconstruction", filename |-> "a.asta",
                       file |-> r.file, fset |-> r.fset, src |-> r.src, err |-> r.err]
           /\ heap' = heap \o i.objs
           /\ held' = Append(held, Held("LoadASTWithSourceReconstruction", i, Len(heap)))
    /\ UNCHANGED <<source, mode, file, perr, fs, procs, archive, cmd>>

LoadOneTracked ==
    /\ Len(heap) < MaxInstances
    /\ LET r == Load("a.asta", registry, fs)
       IN  /\ registry' = r.registry
           /\ last' = [op |-> "Load", filename |-> "a.asta",
                       archive |-> r.archive, err |-> r.err]
           /\ heap' = heap \o (IF r.archive = Nil THEN <<>>
                               ELSE DecodedInstances(Deref(r.archive).bundle, 0))
    /\ UNCHANGED <<source, mode, file, perr, fs, held, procs, archive, cmd>>

\* the caller asks an archive it has loaded for the tree
GetASTStep ==
    /\ Len(held) < MaxLoads
    /\ last.op \in {"Load", "GetAST"}
    /\ last.archive # Nil
    /\ LET a == Deref(last.archive)
           r == GetASTInstances(a, Len(held) + 1)
       IN  /\ last' = [op |-> "GetAST", archive |-> last.archive,
                       file |-> GetAST(a).file, fset |-> GetAST(a).fset,
                       err |-> GetAST(a).err]
           /\ heap' = heap \o r.objs
           /\ held' = Append(held, Held("GetAST", r, Len(heap)))
    /\ UNCHANGED <<source, mode, file, perr, registry, fs, procs, archive, cmd>>

\* the operations of one caller at a time, instances not followed
Sequential == UNCHANGED <<heap, held, procs, archive, cmd>>

Next ==
    \/ Parse /\ Sequential
    \/ Save /\ Sequential
    \/ LoadRecon /\ Sequential
    \/ LoadOne /\ Sequential
    \/ Verify /\ Sequential

Spec == Init /\ [][Next]_vars

\* filling a directory of archives and reading it back in bulk
InitCorpus ==
    /\ Init
    /\ source \in CorpusTexts

NextCorpus ==
    \/ Parse /\ Sequential
    \/ SaveCorpus /\ Sequential
    \/ LoadAllStep /\ Sequential
    \/ Walk /\ Sequential

SpecCorpus == InitCorpus /\ [][NextCorpus]_vars

\* the verifier on its own: the restored tree is any tree a caller may hand
\* it, among them trees whose names a reconstruction failed to re-resolve
Unresolved(t) ==
    [t EXCEPT !.Decls = [i \in 1..Len(t.Decls) |->
        [t.Decls[i] EXCEPT !.Idents = [k \in 1..Len(t.Decls[i].Idents) |->
            [t.Decls[i].Idents[k] EXCEPT !.Obj = FALSE]]]]]

Damaged(t) ==
    {t, Unresolved(t), [t EXCEPT !.Scope = Nil]}
      \cup {[t EXCEPT !.Scope = Ptr([Objects |-> S])] : S \in SUBSET {"x", "f"}}

VerifierInputs(src) ==
    UNION {Damaged(ParseFile(s, m).file) : s \in {src} \cup CorpusTexts, m \in Modes}

InitVerify ==
    /\ source \in Texts
    /\ mode \in Modes
    /\ file = Ptr(ParseFile(source, mode).file)
    /\ perr = ParseFile(source, mode).err
    /\ registry = {}
    /\ fs = InitialFs
    /\ \E t \in VerifierInputs(source) : last = [op |-> "given", file |-> Ptr(t)]
    /\ heap = <<>>
    /\ held = <<>>
    /\ archive = Nil
    /\ cmd = Nil
    /\ procs = <<>>

NextVerify == Verify /\ Sequential

SpecVerify == InitVerify /\ [][NextVerify]_vars

\* a directory that already holds an archive of the caller's tree.  The
\* snapshot field of a bundle is optional (`omitempty`): the writer of the
\* archive stored the cleaned tree, an empty one, or none.
StoredSnapshots(f) == {Nil, deepCopyAndClean(f), Ptr(EmptyFile)}

StoredArchive(f, src, snap) ==
    Encode([MakeBundle(f, FormatNode(f, TRUE).text, FilenameOf(src))
              EXCEPT !.CleanedAST = snap], ASTTypes).data

InitStored ==
    /\ source \in Texts
    /\ mode \in Modes
    /\ file = Ptr(ParseFile(source, mode).file)
    /\ perr = ParseFile(source, mode).err
    /\ registry = {}
    /\ \E snap \in StoredSnapshots(Deref(file)) :
          fs = [InitialFs EXCEPT !["a.asta"] =
                  IF FormatNode(Deref(file), TRUE).err THEN Absent
                  ELSE RegularFile(StoredArchive(Deref(file), source, snap))]
    /\ last = [op |-> "none"]
    /\ heap = <<>>
    /\ held = <<>>
    /\ archive = Nil
    /\ cmd = Nil
    /\ procs = <<>>

NextStored ==
    \/ LoadRecon /\ Sequential
    \/ Verify /\ Sequential

SpecStored == InitStored /\ [][NextStored]_vars

\* one caller saving and loading, every allocated tree followed
NextInstances ==
    \/ ParseTracked
    \/ SaveTracked
    \/ LoadReconTracked
    \/ LoadOneTracked
    \/ GetASTStep

SpecInstances == InitCorpus /\ [][NextInstances]_vars

\* the coverage tool analysing the caller's source file, or a file that
\* does not exist
SourceFiles(src) == {FilenameOf(src), "missing.go"}

Analyze ==
    /\ \E filePath \in SourceFiles(source) :
         LET r == AnalyzeFile(filePath, source)
         IN  last' = [op |-> "AnalyzeFile", filePath |-> filePath,
                      result |-> r.result, err |-> r.err]
    /\ UNCHANGED <<source, mode, file, perr, registry, fs>>

InitAnalyze ==
    /\ Init
    /\ mode = {ParseComments}

NextAnalyze == Analyze /\ Sequential

SpecAnalyze == InitAnalyze /\ [][NextAnalyze]_vars

\* the consumer of the API: it loads an archive and keeps it, queries it,
\* and goes on saving, loading and verifying
LoadHeld ==
    /\ LoadOne
    /\ archive' = last'.archive
    /\ UNCHANGED <<heap, held, procs, cmd>>

QueryStep ==
    /\ archive # Nil
    /\ \E q \in Queries, nodeType \in NodeTypes :
         /\ q # "FindNodesByType" => nodeType = "*ast.FuncDecl"
         /\ LET r == Query(q, Deref(archive), nodeType)
            IN  /\ archive' = Ptr(r.archive)
                /\ last' = [op |-> q, nodeType |-> nodeType, ret |-> r.ret]
    /\ UNCHANGED <<source, mode, file, perr, registry, fs, heap, held, procs, cmd>>

InitApi ==
    /\ InitStored
    /\ source \in CorpusTexts

NextApi ==
    \/ Save /\ Sequential
    \/ LoadHeld
    \/ QueryStep
    \/ LoadRecon /\ Sequential
    \/ Verify /\ Sequential
    \/ LoadAllStep /\ Sequential
    \/ Walk /\ Sequential

SpecApi == InitApi /\ [][NextApi]_vars

\* the orchestrator, one block of main at a time; what a phase finds in the
\* directories is the environment's choice
ParseFlags ==
    /\ cmd # Nil
    /\ Deref(cmd).pc = "flags"
    /\ cmd' = Ptr(ParseFlagsStep(Deref(cmd)))

RunTests ==
    /\ cmd # Nil
    /\ Deref(cmd).pc = "run"
    /\ \E readErr \in BOOLEAN, results \in SeqsUpTo(BOOLEAN, MaxFiles) :
         cmd' = Ptr(PhaseStep(Deref(cmd), "run", "analyze",
                              runTestFiles(readErr, results).err))

AnalyzeFiles ==
    /\ cmd # Nil
    /\ Deref(cmd).pc = "analyze"
    /\ \E readErr \in BOOLEAN :
         cmd' = Ptr(PhaseStep(Deref(cmd), "analyze", "generate", analyzeFiles(readErr)))

GenerateASTFiles ==
    /\ cmd # Nil
    /\ Deref(cmd).pc = "generate"
    /\ \E writeErr \in BOOLEAN :
         cmd' = Ptr(PhaseStep(Deref(cmd), "generate", "report", generateASTFiles(writeErr)))

GenerateCoverageReport ==
    /\ cmd # Nil
    /\ Deref(cmd).pc = "report"
    /\ \E reportErr \in BOOLEAN :
         cmd' = Ptr(PhaseStep(Deref(cmd), "report", "success",
                              generateCoverageReport(reportErr)))

PrintSuccess ==
    /\ cmd # Nil
    /\ Deref(cmd).pc = "success"
    /\ cmd' = Ptr(SuccessStep(Deref(cmd)))

\* the orchestrator touches none of the archive caller's state
MainOnly ==
    UNCHANGED <<source, mode, file, perr, registry, fs, last, heap, held, procs, archive>>

InitMain ==
    /\ source = <<"main">>
    /\ mode = {ParseComments}
    /\ file = Nil
    /\ perr = FALSE
    /\ registry = {}
    /\ fs = InitialFs
    /\ last = [op |-> "none"]
    /\ heap = <<>>
    /\ held = <<>>
    /\ procs = <<>>
    /\ archive = Nil
    /\ \E fl \in Flags : cmd = Ptr(NewCmd(fl))

NextMain ==
    \/ ParseFlags /\ MainOnly
    \/ RunTests /\ MainOnly
    \/ AnalyzeFiles /\ MainOnly
    \/ GenerateASTFiles /\ MainOnly
    \/ GenerateCoverageReport /\ MainOnly
    \/ PrintSuccess /\ MainOnly

SpecMain == InitMain /\ [][NextMain]_vars

\* the generator run over an input directory: what each name of the input
\* directory holds and what each write is let to do are the environment's
InputTexts == {<<"main", "func">>, <<"lib", "//", "BAD">>}

Contents(name) ==
    IF name = "notes.txt"
    THEN {[kind |-> "file", readable |-> TRUE, src |-> <<>>]}
    ELSE IF name = "sub.go"
    THEN {[kind |-> "absent"], [kind |-> "file", readable |-> TRUE, src |-> <<"main", "func">>]}
    ELSE {[kind |-> "absent"], [kind |-> "dir"],
          [kind |-> "file", readable |-> FALSE, src |-> <<>>]}
           \cup {[kind |-> "file", readable |-> TRUE, src |-> t] : t \in InputTexts}

InputDirs ==
    {SelectSeq(<<Entry(InNames[1], a), Entry(InNames[2], b), Entry(InNames[3], n),
                 Entry(InNames[4], c)>>,
               LAMBDA e : e.what.kind # "absent") :
        a \in Contents(InNames[1]), b \in Contents(InNames[2]),
        n \in Contents(InNames[3]), c \in Contents(InNames[4])}

\* what the operating system lets the write of each archive do: those of
\* a.go and b.go may fail at the open
WriteChoices ==
    {[name \in {InNames[i] : i \in 1..Len(InNames)} |->
        IF name = "a.go" THEN wa ELSE IF name = "b.go" THEN wb
        ELSE [kind |-> "ok", n |-> 2]] :
        wa \in {[kind |-> "ok", n |-> 2], [kind |-> "open", n |-> 0]},
        wb \in {[kind |-> "ok", n |-> 2], [kind |-> "open", n |-> 0]}}

Generate ==
    /\ \E mkErr \in BOOLEAN, readErr \in BOOLEAN, entries \in InputDirs, wrs \in WriteChoices :
         /\ (mkErr \/ readErr) => (entries = <<>> /\ \A n \in DOMAIN wrs : wrs[n].kind = "ok")
         /\ LET r == WriteASTFiles(mkErr, readErr, entries, registry, fs, wrs)
            IN  /\ registry' = r.registry
                /\ fs' = r.fs
                /\ last' = [op |-> "WriteASTFiles", mkErr |-> mkErr, readErr |-> readErr,
                            entries |-> entries, wrs |-> wrs, before |-> fs,
                            generated |-> r.generated, warned |-> r.warned, err |-> r.err]
    /\ UNCHANGED <<source, mode, file, perr>>

InitGenerate ==
    /\ Init
    /\ source = <<"main">>
    /\ mode = {ParseComments}

NextGenerate == Generate /\ Sequential

SpecGenerate == InitGenerate /\ [][NextGenerate]_vars

\* the report over a directory of source files: each file with its text and
\* the path it is read from, one of them unreadable
ReportTexts ==
    {<<"main">>, <<"main", "//">>, <<"main", "func">>, <<"lib", "import">>,
     <<"lib", "var">>, <<"lib", "BAD">>}

ReportFiles ==
    SeqsUpTo({[src |-> t, path |-> FilenameOf(t)] : t \in ReportTexts}
               \cup {[src |-> <<"main", "func">>, path |-> "missing.go"]},
             MaxFiles)

Report ==
    /\ \E readErr \in BOOLEAN, pkgErr \in BOOLEAN, files \in ReportFiles :
         LET r == GenerateReport(readErr, files, pkgErr)
         IN  /\ readErr => files = <<>>
             /\ last' = [op |-> "GenerateReport", readErr |-> readErr, files |-> files,
                         pkgErr |-> pkgErr, report |-> r.report, err |-> r.err]
    /\ UNCHANGED <<source, mode, file, perr, registry, fs>>

NextReport == Report /\ Sequential

SpecReport == InitGenerate /\ [][NextReport]_vars

\* a caller of DeepCompareAST: it parses its source and compares two nodes
\* of the tree, or nil
CompareTexts == {t \in Texts : Len(t) <= 3}

CompareArgs(f) == {Nil} \cup {Iface(n) : n \in Subtrees(FileNode(f))}

Compare ==
    /\ \E a \in CompareArgs(Deref(file)), b \in CompareArgs(Deref(file)) :
         LET r == DeepCompareAST(a, b)
         IN  last' = [op |-> "DeepCompareAST", a |-> a, b |-> b,
                      ret |-> r.ret, panic |-> r.panic]
    /\ UNCHANGED <<source, mode, file, perr, registry, fs>>

InitCompare ==
    /\ source \in CompareTexts
    /\ mode \in Modes
    /\ file = Ptr(ParseFile(source, mode).file)
    /\ perr = ParseFile(source, mode).err
    /\ registry = {}
    /\ fs = InitialFs
    /\ last = [op |-> "none"]
    /\ heap = <<>>
    /\ held = <<>>
    /\ archive = Nil
    /\ cmd = Nil
    /\ procs = <<>>

NextCompare == Compare /\ Sequential

SpecCompare == InitCompare /\ [][NextCompare]_vars

\* two callers, each running one operation on its own path, step by step
Register(p) ==
    /\ procs[p].pc = "register"
    /\ registry' = RegisterAllASTTypes(registry)
    /\ procs' = RegisterStep(procs, p)
    /\ UNCHANGED <<source, mode, file, perr, fs, last, heap, held, archive, cmd>>

Format(p) ==
    /\ procs[p].pc = "format"
    /\ procs' = FormatStep(procs, p)
    /\ UNCHANGED <<source, mode, file, perr, registry, fs, last, heap, held, archive, cmd>>

Bundle(p) ==
    /\ procs[p].pc = "bundle"
    /\ procs' = BundleStep(procs, p)
    /\ UNCHANGED <<source, mode, file, perr, registry, fs, last, heap, held, archive, cmd>>

EncodeBundle(p) ==
    /\ procs[p].pc = "encode"
    /\ procs' = EncodeStep(procs, p, registry)
    /\ UNCHANGED <<source, mode, file, perr, registry, fs, last, heap, held, archive, cmd>>

Write(p) ==
    /\ procs[p].pc = "write"
    /\ \E wr \in WriteOutcomes(procs[p].data) :
         /\ procs' = WriteStep(procs, p, fs, wr).procs
         /\ fs' = WriteStep(procs, p, fs, wr).fs
    /\ UNCHANGED <<source, mode, file, perr, registry, last, heap, held, archive, cmd>>

Read(p) ==
    /\ procs[p].pc = "read"
    /\ procs' = ReadStep(procs, p, fs)
    /\ UNCHANGED <<source, mode, file, perr, registry, fs, last, heap, held, archive, cmd>>

DecodeBundle(p) ==
    /\ procs[p].pc = "decode"
    /\ procs' = DecodeStep(procs, p, registry)
    /\ UNCHANGED <<source, mode, file, perr, registry, fs, last, heap, held, archive, cmd>>

Reparse(p) ==
    /\ procs[p].pc = "parse"
    /\ procs' = ParseStep(procs, p)
    /\ UNCHANGED <<source, mode, file, perr, registry, fs, last, heap, held, archive, cmd>>

\* the source of the second caller's tree, and a source that does not parse
OtherSource == <<"lib", "//", "func">>
BrokenSource == <<"lib", "BAD">>

ArchiveOf(src) ==
    LET f == ParseFile(src, {ParseComments}).file
    IN  StoredArchive(f, src, deepCopyAndClean(f))

\* what the path of an operation may hold when the operation starts:
\* nothing or an archive, and for a load also an archive cut short and an
\* archive of a tree the parser had rejected
StartContents(op) ==
    {Absent, RegularFile(ArchiveOf(OtherSource))}
      \cup (IF op = "save" THEN {}
            ELSE {RegularFile(SubSeq(ArchiveOf(OtherSource), 1, 1)),
                  RegularFile(ArchiveOf(BrokenSource))})

InitConcurrent ==
    /\ source \in CorpusTexts
    /\ mode \in Modes
    /\ file = Ptr(ParseFile(source, mode).file)
    /\ perr = ParseFile(source, mode).err
    /\ registry = {}
    /\ last = [op |-> "none"]
    /\ heap = <<>>
    /\ held = <<>>
    /\ archive = Nil
    /\ cmd = Nil
    /\ \E op1 \in Ops, op2 \in Ops :
         \E c1 \in StartContents(op1), c2 \in StartContents(op2) :
            /\ fs = [InitialFs EXCEPT !["a.asta"] = c1, !["b.asta"] = c2]
            /\ procs = [p \in Procs |->
                          IF p = 1
                          THEN NewProc(op1, PathOf(1), file, FilenameOf(source), c1)
                          ELSE NewProc(op2, PathOf(2),
                                       Ptr(ParseFile(OtherSource, {ParseComments}).file),
                                       FilenameOf(OtherSource), c2)]

NextConcurrent ==
    \E p \in Procs :
        \/ Register(p)
        \/ Format(p)
        \/ Bundle(p)
        \/ EncodeBundle(p)
        \/ Write(p)
        \/ Read(p)
        \/ DecodeBundle(p)
        \/ Reparse(p)

SpecConcurrent == InitConcurrent /\ [][NextConcurrent]_vars

\* a caller saving to a path that may already hold an archive of another tree
InitOverwrite ==
    /\ source \in Texts
    /\ mode \in Modes
    /\ file = Ptr(ParseFile(source, mode).file)
    /\ perr = ParseFile(source, mode).err
    /\ registry = {}
    /\ fs \in {InitialFs,
               [InitialFs EXCEPT !["a.asta"] = RegularFile(ArchiveOf(OtherSource))]}
    /\ last = [op |-> "none"]
    /\ heap = <<>>
    /\ held = <<>>
    /\ procs = <<>>
    /\ archive = Nil
    /\ cmd = Nil

NextOverwrite ==
    \/ Save /\ Sequential
    \/ LoadRecon /\ Sequential

SpecOverwrite == InitOverwrite /\ [][NextOverwrite]_vars

(* ----------------------------------------------------------------- claims *)
ResolutionOn == SkipObjectResolution \notin mode

C2_FailedSaveLeavesNoFile ==
    (last.op = "Save" /\ last.err # NoError)
        => fs[last.outputFile].kind # "file"

\* the archive entries of the directory that LoadAll and the walk select
Selected(n) == fs[n].kind = "file" /\ HasSuffix(n, ".asta")
FailsToLoad(n) == Load(n, ASTTypes, fs).err # NoError

\* C3: LoadAll over a directory in which some archive file fails to load
\* returns an error and no archive list, wherever the failing file stands.
C3_LoadAllAllOrNothing ==
    (/\ last.op = "LoadAll"
     /\ last.dir = "corpus"
     /\ \E n \in Names : Selected(n) /\ FailsToLoad(n))
        => (last.err # NoError /\ last.archives = <<>>)

\* C3 witness: the first archive loads, the second is corrupt
C3_Witness ==
    /\ last.op = "LoadAll"
    /\ last.dir = "corpus"
    /\ Selected("a.asta") /\ ~FailsToLoad("a.asta")
    /\ Selected("b.asta") /\ FailsToLoad("b.asta")
    /\ last.err # NoError
    /\ last.archives = <<>>

\* C4: once the visitor of a walk has returned an error the walk stops: the
\* failing call is the last one, the walk returns an error, and a visitor
\* that fails on its first call is called exactly once.
C4_WalkEarlyExit ==
    (/\ last.op = "WalkArchives"
     /\ last.failAt >= 1
     /\ Len(last.calls) >= last.failAt)
        => (/\ Len(last.calls) = last.failAt
            /\ last.err # NoError
            /\ (last.failAt = 1 => Len(last.calls) = 1))

\* C4 witness: two loadable archives, the visitor fails on the first
C4_Witness ==
    /\ last.op = "WalkArchives"
    /\ last.failAt = 1
    /\ Selected("a.asta") /\ ~FailsToLoad("a.asta")
    /\ Selected("b.asta") /\ ~FailsToLoad("b.asta")
    /\ last.calls = <<"a.asta">>
    /\ last.err # NoError

\* C5: a load that fails returns nothing usable: no tree, no file set and
\* the empty text from LoadASTWithSourceReconstruction, no archive from Load.
C5_FailedLoadReturnsNothing ==
    /\ (last.op = "LoadASTWithSourceReconstruction" /\ last.err # NoError)
          => (last.file = Nil /\ last.fset = Nil /\ last.src = <<>>)
    /\ (last.op = "Load" /\ last.err # NoError) => last.archive = Nil

\* C5 witness: the archive decodes but its source does not parse again
C5_Witness ==
    /\ last.op = "LoadASTWithSourceReconstruction"
    /\ last.err = "failed to re-parse source"
    /\ last.file = Nil

\* the three axes of the verifier, stated on the two trees
TextAxis(o, r) ==
    /\ ~FormatNode(o, TRUE).err
    /\ ~FormatNode(r, TRUE).err
    /\ FormatNode(o, TRUE).text = FormatNode(r, TRUE).text

ScopeAxis(o, r) ==
    /\ (o.Scope = Nil) <=> (r.Scope = Nil)
    /\ (o.Scope # Nil /\ r.Scope # Nil)
          => Cardinality(Deref(o.Scope).Objects) = Cardinality(Deref(r.Scope).Objects)

Resolved(t) ==
    {<<i, k>> \in (1..Len(t.Decls)) \X (1..2) :
        k <= Len(t.Decls[i].Idents) /\ t.Decls[i].Idents[k].Obj}

RefAxis(o, r) == Cardinality(Resolved(o)) = Cardinality(Resolved(r))

\* C6: VerifyPerfectFidelity returns no error exactly when the canonical
\* texts are equal, the scope shapes agree and the counts of resolved
\* identifiers are equal; one failing axis fails the verification.
C6_VerifyIffAllAxes ==
    last.op = "VerifyPerfectFidelity"
        => (last.err = NilError
              <=> (/\ TextAxis(Deref(file), last.restored)
                   /\ ScopeAxis(Deref(file), last.restored)
                   /\ RefAxis(Deref(file), last.restored)))

\* C6 witness: text and scope shape agree, only the resolved count differs
C6_Witness ==
    /\ last.op = "VerifyPerfectFidelity"
    /\ TextAxis(Deref(file), last.restored)
    /\ ScopeAxis(Deref(file), last.restored)
    /\ ~RefAxis(Deref(file), last.restored)
    /\ last.err # NilError

\* C7: every mismatch the verifier reports carries the two observed values.
C7_FailureCarriesValues ==
    (/\ last.op = "VerifyPerfectFidelity"
     /\ last.err # NilError
     /\ last.err.msg \notin {"failed to format original", "failed to format restored"})
        => Len(last.err.args) = 2

\* C8: the text a load returns for an archive is the canonical text of the
\* tree that was saved, from LoadASTWithSourceReconstruction and from
\* Load(path).GetSourceCode() alike.
C8_LoadedTextIsCanonical ==
    /\ (last.op = "LoadASTWithSourceReconstruction" /\ last.err = NoError)
          => last.src = FormatNode(Deref(file), TRUE).text
    /\ (last.op = "Load" /\ last.err = NoError)
          => GetSourceCode(Deref(last.archive)) = FormatNode(Deref(file), TRUE).text

\* C8 witness: a load of the archive of a file with a comment before a declaration
C8_Witness ==
    /\ last.op = "LoadASTWithSourceReconstruction"
    /\ last.err = NoError
    /\ last.src = FormatNode(Deref(file), TRUE).text
    /\ Deref(file).Comments = <<0>>
    /\ Len(Deref(file).Decls) = 1

\* C9 as stated: the text a load returns is the text given to the parser.
C9_LoadedTextIsOriginal ==
    /\ (last.op = "LoadASTWithSourceReconstruction" /\ last.err = NoError)
          => last.src = source
    /\ (last.op = "Load" /\ last.err = NoError)
          => GetSourceCode(Deref(last.archive)) = source

\* a source text in canonical form under the mode it is parsed with: no
\* redundant white space, and no comment the parser is told to drop
Canonical(src, m) ==
    /\ \A i \in 1..Len(src) : src[i] # "sp"
    /\ (\E i \in 1..Len(src) : src[i] = "//") => ParseComments \in m

\* C9 amended: when the source given to the parser is already in canonical
\* form, the text a load returns is equal to it.
C9_LoadedTextIsOriginalIfCanonical ==
    Canonical(source, mode) =>
        /\ (last.op = "LoadASTWithSourceReconstruction" /\ last.err = NoError)
              => last.src = source
        /\ (last.op = "Load" /\ last.err = NoError)
              => GetSourceCode(Deref(last.archive)) = source

\* C9 witness: a canonical source with a comment comes back unchanged
C9_Witness ==
    /\ Canonical(source, mode)
    /\ \E i \in 1..Len(source) : source[i] = "//"
    /\ last.op = "Load"
    /\ last.err = NoError
    /\ GetSourceCode(Deref(last.archive)) = source

\* C10: parsing the stored source with the stored parse mode gives a tree
\* with the scope presence, the resolved references and the comments of the
\* tree that was archived, whatever mode that tree was parsed with.
C10_StoredModeReproducesTree ==
    (last.op = "Load" /\ last.err = NoError /\ ~perr) =>
        LET b == Deref(last.archive).bundle
            t == ParseFile(b.SourceCode, b.ParseMode).file
        IN  /\ (t.Scope = Nil) <=> (Deref(file).Scope = Nil)
            /\ InspectIdentObjs(t) = InspectIdentObjs(Deref(file))
            /\ t.Comments = Deref(file).Comments

\* C11: the tree a load returns (LoadASTWithSourceReconstruction, GetAST) is
\* the instance the parser allocated during that very call from the stored
\* text and mode: not the caller's instance, not a snapshot instance, its
\* references those the parser computed, and no two calls return the same
\* instance.
C11_LoadReturnsFreshParse ==
    /\ \A k \in 1..Len(held) :
          held[k].file # 0 =>
            /\ heap[held[k].file].site = "parser.ParseFile"
            /\ heap[held[k].file].call = k
            /\ heap[held[k].file].val = ParseFile(held[k].text, held[k].mode).file
            /\ \A a \in 1..Len(heap) :
                  heap[a].site \in {"caller", "deepCopyAndClean", "gob.Decode"}
                      => a # held[k].file
            /\ \A j \in 1..Len(held) : j # k => held[j].file # held[k].file
    /\ (last.op \in {"LoadASTWithSourceReconstruction", "GetAST"} /\ held # <<>>)
          => IF last.err = NoError
             THEN /\ held[Len(held)].file # 0
                  /\ heap[held[Len(held)].file].val = Deref(last.file)
             ELSE held[Len(held)].file = 0

\* C11 witness: GetAST and LoadASTWithSourceReconstruction on one archive,
\* of a source with a resolved identifier, have returned two instances
\* while the caller's tree and a decoded snapshot are on the heap
C11_Witness ==
    /\ Len(held) = 2
    /\ held[1].file # 0
    /\ held[2].file # 0
    /\ held[1].file # held[2].file
    /\ held[1].op = "GetAST"
    /\ held[2].op = "LoadASTWithSourceReconstruction"
    /\ InspectIdentObjs(heap[held[2].file].val) > 0
    /\ \E a \in 1..Len(heap) : heap[a].site = "gob.Decode"
    /\ \E a \in 1..Len(heap) : heap[a].site = "caller"

\* a save that got as far as building the snapshot, and the snapshot failed
\* to build
SnapshotFailed ==
    /\ last.op = "Save"
    /\ ~FormatNode(Deref(file), TRUE).err
    /\ deepCopyAndCleanErrs(Deref(file)) # {}

\* C12: a snapshot that fails to build does not fail the save: only the
\* write can still fail it, and the archive of a save that succeeds holds
\* the canonical text, the file name, the parse mode and the metadata, and
\* no snapshot.
C12_SnapshotFailureLeavesSnapshotAbsent ==
    SnapshotFailed =>
        /\ last.err \in {NoError, "write failed"}
        /\ last.err = NoError =>
              LET b == Decode(fs[last.outputFile].data, ASTTypes).bundle
              IN  /\ b.SourceCode = FormatNode(Deref(file), TRUE).text
                  /\ b.Filename = FilenameOf(source)
                  /\ b.ParseMode = {ParseComments}
                  /\ b.Metadata = [original_package |-> Deref(file).Name.Name,
                                   num_declarations |-> Len(Deref(file).Decls),
                                   num_imports      |-> Len(Imports(Deref(file)))]
                  /\ b.CleanedAST = Nil

\* C13: a snapshot that fails to build is surfaced to the caller of the
\* save.  The error value is all a save hands back (it prints and logs
\* nothing), so the value must be one that tells of the snapshot.
C13_SnapshotFailureSurfaced ==
    SnapshotFailed => last.err \notin {NoError, "write failed"}

\* the archive at a.asta holds no snapshot
SnapshotAbsent ==
    /\ fs["a.asta"].kind = "file"
    /\ Decode(fs["a.asta"].data, ASTTypes).bundle.CleanedAST = Nil

\* the directory with the same archive written with its snapshot
WithSnapshot ==
    [fs EXCEPT !["a.asta"] =
       RegularFile(StoredArchive(Deref(file), source, deepCopyAndClean(Deref(file))))]

C15_LoadFailsOncePerStep ==
    \A p \in DOMAIN procs :
        procs[p].op = "load" =>
            /\ \E n \in 0..3 : procs[p].steps = SubSeq(<<"read", "decode", "parse">>, 1, n)
            /\ procs[p].pc = "done" =>
                  LET e == Deref(procs[p].res).err
                  IN  /\ e = "failed to read file" <=> procs[p].steps = <<"read">>
                      /\ e = "failed to decode bundle"
                            <=> procs[p].steps = <<"read", "decode">>
                      /\ e \in {"failed to re-parse source", NoError}
                            <=> procs[p].steps = <<"read", "decode", "parse">>
                      /\ e # NoError => Deref(procs[p].res).file = Nil

\* C15 witness: one load has failed in its decode and the other in its parse
C15_Witness ==
    /\ DOMAIN procs = Procs
    /\ procs[1].op = "load" /\ procs[1].pc = "done"
    /\ procs[2].op = "load" /\ procs[2].pc = "done"
    /\ Deref(procs[1].res).err = "failed to decode bundle"
    /\ procs[1].steps = <<"read", "decode">>
    /\ Deref(procs[2].res).err = "failed to re-parse source"
    /\ procs[2].steps = <<"read", "decode", "parse">>

\* what the operation of process p returns, and the file system it leaves,
\* when it runs from the start to the end with no other operation running
Alone(p) ==
    LET q   == procs[p]
        fs0 == [InitialFs EXCEPT ![q.path] = q.before]
    IN  IF q.op = "save"
        THEN LET r == SaveASTWithSourcePreservation(
                          Deref(q.tree), q.name, q.path, {}, fs0,
                          IF q.wr = Nil THEN [kind |-> "open", n |-> 0] ELSE Deref(q.wr))
             IN  [res |-> SaveResult(r.err), fs |-> r.fs]
        ELSE LET r == LoadASTWithSourceReconstruction(q.path, {}, fs0)
             IN  [res |-> LoadResult(r.file, r.fset, r.src, r.err), fs |-> fs0]

\* C17: whatever the interleaving of the steps of two operations on
\* different paths, an operation that is done has returned what it returns
\* when run alone and its path holds what it holds then.
C17_NoInterference ==
    \A p \in DOMAIN procs :
        procs[p].pc = "done" =>
            /\ Deref(procs[p].res) = Alone(p).res
            /\ fs[procs[p].path] = Alone(p).fs[procs[p].path]

\* C17 witness: a save and a load that ran side by side are both done, both
\* without error, and their two paths hold different archives
C17_Witness ==
    /\ DOMAIN procs = Procs
    /\ procs[1].op = "save" /\ procs[1].pc = "done"
    /\ procs[2].op = "load" /\ procs[2].pc = "done"
    /\ Deref(procs[1].res).err = NoError
    /\ Deref(procs[2].res).err = NoError
    /\ fs["a.asta"] # fs["b.asta"]

\* C16: the archive that Load returns for a path the caller's tree was
\* saved to gives back the file name handed to the save, the package name
\* of the tree, the number of its top-level declarations and the number of
\* its imports.
C16_MetadataRoundTrip ==
    (last.op = "Load" /\ last.err = NoError) =>
        /\ GetFilename(Deref(last.archive)) = FilenameOf(source)
        /\ GetPackageName(Deref(last.archive)) = Deref(file).Name.Name
        /\ DeclarationCount(Deref(last.archive)) = Len(Deref(file).Decls)
        /\ ImportCount(Deref(last.archive)) = Len(Imports(Deref(file)))

\* C16 witness: the archive of a file with two declarations, one of them
\* an import
C16_Witness ==
    /\ last.op = "Load"
    /\ last.err = NoError
    /\ DeclarationCount(Deref(last.archive)) = 2
    /\ ImportCount(Deref(last.archive)) = 1
    /\ GetPackageName(Deref(last.archive)) = "lib"
    /\ GetFilename(Deref(last.archive)) = "lib.go"

SelectedEntries == SelectSeq(DirEntries, Selected)

\* C19: LoadAll and the walk handle exactly the regular files named *.asta.
\* When each of them loads, LoadAll returns no error and, in directory
\* order, one archive per such file; when moreover the visitor never fails,
\* the walk returns no error having called it once per such file and for
\* no other entry.
C19_ExactlyTheArchives ==
    (\A n \in Names : Selected(n) => ~FailsToLoad(n)) =>
        /\ (last.op = "LoadAll" /\ last.dir = "corpus")
              => /\ last.err = NoError
                 /\ last.archives =
                       [i \in 1..Len(SelectedEntries) |->
                          Deref(Load(SelectedEntries[i], ASTTypes, fs).archive)]
        /\ (/\ last.op = "WalkArchives"
            /\ last.dir = "corpus"
            /\ (last.failAt = 0 \/ last.failAt > Len(SelectedEntries)))
              => /\ last.err = NoError
                 /\ last.calls = SelectedEntries

\* C19 witness: a walk over two archives, a text file and a sub-directory
\* named like an archive has called the visitor for the two archives
C19_Witness ==
    /\ last.op = "WalkArchives"
    /\ last.dir = "corpus"
    /\ last.failAt = 0
    /\ fs["notes.txt"].kind = "file"
    /\ fs["sub.asta"].kind = "dir"
    /\ last.calls = <<"a.asta", "b.asta">>
    /\ last.err = NoError

\* the sum of the counts of a NodeCounts map
RECURSIVE SumCounts(_)
SumCounts(counts) ==
    IF DOMAIN counts = {} THEN 0
    ELSE LET t == CHOOSE x \in DOMAIN counts : TRUE
         IN  counts[t] + SumCounts([x \in DOMAIN counts \ {t} |-> counts[x]])

\* C20: the walk AnalyzeFile counts with reaches every node of the file
\* once: TotalNodes is the number of nodes of the tree and the sum of the
\* NodeCounts, UniqueTypes the number of distinct tags, and every tag is
\* spelled as in the catalog GetAllNodeTypes.
C20_WalkCountsEveryNode ==
    (last.op = "AnalyzeFile" /\ last.err = NoError) =>
        LET r == Deref(last.result)
            t == ParseFile(source, {ParseComments}).file
        IN  /\ r.TotalNodes = Len(FileNodes(t))
            /\ r.TotalNodes = SumCounts(r.NodeCounts)
            /\ r.UniqueTypes = Cardinality(DOMAIN r.NodeCounts)
            /\ \A tag \in DOMAIN r.NodeCounts :
                  \E i \in 1..Len(GetAllNodeTypes) : GetAllNodeTypes[i] = tag

ThreePhases == {"run", "analyze", "report"}
RanOf(c) == {c.ran[i] : i \in 1..Len(c.ran)} \cap ThreePhases
GivenOf(c) == {ph \in ThreePhases : c.given[ph]}

\* C22: with none of -run, -analyze, -report, or with -all, a process that
\* ends with success has run the test-run, analysis and report phases, and
\* each of them has run as soon as main is past its block; with exactly one
\* of the three flags and no -all, the two other phases never run and the
\* named one has run as soon as main is past its block.
C22_PhaseSelection ==
    cmd # Nil =>
        LET c == Deref(cmd)
            past(ph) == CASE c.pc \in {"flags", "exited"} -> c.status = Ptr(0)
                          [] ph = "run"     -> c.pc # "run"
                          [] ph = "analyze" -> c.pc \notin {"run", "analyze"}
                          [] OTHER          -> c.pc = "success"
        IN  /\ (c.given["all"] \/ GivenOf(c) = {}) =>
                  \A ph \in ThreePhases : past(ph) => ph \in RanOf(c)
            /\ (~c.given["all"] /\ Cardinality(GivenOf(c)) = 1) =>
                  /\ RanOf(c) \subseteq GivenOf(c)
                  /\ \A ph \in GivenOf(c) : past(ph) => ph \in RanOf(c)

\* a process started with no flag at all has ended with success after the
\* three phases
C22_Witness ==
    /\ cmd # Nil
    /\ Deref(cmd).status = Ptr(0)
    /\ Deref(cmd).given = [n \in FlagNames |-> FALSE]
    /\ Deref(cmd).ran = <<"run", "analyze", "report">>

\* the checks of the verifier in the order the claim gives them, whether a
\* check fails on a pair of trees, and the check an error reports
Checks == <<"format", "text", "scope presence", "scope count", "identifier count">>

Fails(check, o, r) ==
    CASE check = "format" -> FormatNode(o, TRUE).err \/ FormatNode(r, TRUE).err
      [] check = "text"   -> /\ ~FormatNode(o, TRUE).err
                             /\ ~FormatNode(r, TRUE).err
                             /\ FormatNode(o, TRUE).text # FormatNode(r, TRUE).text
      [] check = "scope presence" -> (o.Scope = Nil) # (r.Scope = Nil)
      [] check = "scope count" ->
             /\ o.Scope # Nil
             /\ r.Scope # Nil
             /\ Cardinality(Deref(o.Scope).Objects) # Cardinality(Deref(r.Scope).Objects)
      [] OTHER -> ~RefAxis(o, r)

Reported(err) ==
    CASE err.msg \in {"failed to format original", "failed to format restored"} -> "format"
      [] err.msg = "source code does not match" -> "text"
      [] err.msg = "scope preservation mismatch" -> "scope presence"
      [] err.msg = "scope objects count mismatch: %d vs %d" -> "scope count"
      [] err.msg = "identifier object count mismatch: %d vs %d" -> "identifier count"
      [] OTHER -> "none"

\* C23: the verifier reports the first check that fails in the order
\* format, text, scope presence, scope count, identifier count, whatever
\* the later checks would say; with no failing check it reports nothing.
C23_FirstFailingCheckReported ==
    last.op = "VerifyPerfectFidelity" =>
        LET o == Deref(file)
            r == last.restored
            failing == {i \in 1..Len(Checks) : Fails(Checks[i], o, r)}
        IN  IF failing = {} THEN Reported(last.err) = "none"
            ELSE \E i \in failing :
                    /\ \A j \in failing : i <= j
                    /\ Reported(last.err) = Checks[i]

\* the texts differ, the scope is present on one side only and the counts of
\* resolved identifiers differ: the text is what is reported
C23_Witness ==
    /\ last.op = "VerifyPerfectFidelity"
    /\ Fails("text", Deref(file), last.restored)
    /\ Fails("scope presence", Deref(file), last.restored)
    /\ Fails("identifier count", Deref(file), last.restored)
    /\ Reported(last.err) = "text"

\* the places in SelectedEntries of the archive files that do not load
Unloadable == {i \in 1..Len(SelectedEntries) : FailsToLoad(SelectedEntries[i])}

\* C24: a walk that comes to an archive file that does not load, the k-th,
\* stops there: it returns the load's error wrapped with the file's name,
\* and the visitor has been called on the k-1 archives before it, in
\* directory order, and on nothing else.  A walk whose visitor fails before
\* that returns the visitor's error as it is.
C24_WalkStopsAtLoadFailure ==
    (last.op = "WalkArchives" /\ last.dir = "corpus") =>
        /\ \A k \in Unloadable :
              (\A j \in Unloadable : k <= j) =>
                  IF last.failAt = 0 \/ last.failAt >= k
                  THEN /\ last.err = "failed to load " \o SelectedEntries[k] \o ": "
                                        \o Load(SelectedEntries[k], ASTTypes, fs).err
                       /\ last.calls = SubSeq(SelectedEntries, 1, k - 1)
                  ELSE /\ last.err = "intentional error"
                       /\ last.calls = SubSeq(SelectedEntries, 1, last.failAt)
        /\ (Unloadable = {} /\ last.failAt \in 1..Len(SelectedEntries)) =>
              /\ last.err = "intentional error"
              /\ last.calls = SubSeq(SelectedEntries, 1, last.failAt)

\* the first archive loads and is visited, the second is cut short
C24_Witness ==
    /\ last.op = "WalkArchives"
    /\ last.dir = "corpus"
    /\ SelectedEntries = <<"a.asta", "b.asta">>
    /\ Unloadable = {2}
    /\ last.failAt = 0
    /\ last.calls = <<"a.asta">>
    /\ last.err = "failed to load b.asta: failed to decode bundle"

\* C25: a save that fails at formatting or at encoding leaves every file as
\* it was: what the output path held is still there, and a path that held
\* nothing still holds nothing.
C25_EarlyFailureLeavesPathAlone ==
    [][(/\ last'.op = "Save"
        /\ last'.err \in {"failed to format AST to source", "failed to encode bundle"})
          => fs' = fs]_vars

\* a save to a path that holds an archive of another tree has failed at
\* formatting, and the archive is still there
C25_Witness ==
    /\ last.op = "Save"
    /\ last.outputFile = "a.asta"
    /\ last.err = "failed to format AST to source"
    /\ fs["a.asta"] = RegularFile(ArchiveOf(OtherSource))

\* the order of the phases, the place of a phase in it, and the phases the
\* flags of a process select
PhaseOrder == <<"run", "analyze", "generate", "report">>
Place(ph) == CHOOSE i \in 1..Len(PhaseOrder) : PhaseOrder[i] = ph
SelectedPhases(c) == SelectSeq(PhaseOrder, LAMBDA ph : Defaulted(c.given)[ph])
Printed(c, line) == \E i \in 1..Len(c.out) : c.out[i] = line

\* C26: the phases run in the order run-tests, analyze, generate-archives,
\* report; a phase that returns an error is the last one to run and the
\* process ends with status 1; the success message is printed only when
\* every selected phase has run without error.
C26_PhaseOrderAndExit ==
    cmd # Nil =>
        LET c == Deref(cmd)
        IN  /\ \A i, j \in 1..Len(c.ran) : i < j => Place(c.ran[i]) < Place(c.ran[j])
            /\ c.stderr # <<>> =>
                  /\ c.status = Ptr(1)
                  /\ c.pc = "exited"
                  /\ Len(c.stderr) = 1
                  /\ \E err \in {"failed to read directory", "file(s) failed to execute",
                                   "failed to generate AST files", "failed to generate report"} :
                        c.stderr[1] = Complaint(c.ran[Len(c.ran)]) \o ": " \o err
                  /\ ~Printed(c, Success)
            /\ c.status = Ptr(1) => c.stderr # <<>>
            /\ Printed(c, Success) =>
                  /\ c.status = Ptr(0)
                  /\ c.stderr = <<>>
                  /\ c.ran = SelectedPhases(c)
            /\ c.status = Ptr(0) => Printed(c, Success)

\* a process started with -all and -generate has ended with status 1 after
\* the analysis failed: neither archives nor report were started
C26_Witness ==
    /\ cmd # Nil
    /\ Deref(cmd).given["all"]
    /\ Deref(cmd).given["generate"]
    /\ Deref(cmd).status = Ptr(1)
    /\ Deref(cmd).ran = <<"run", "analyze">>
    /\ Deref(cmd).stderr = <<"Error analyzing files: failed to read directory">>

\* whether a .go file of the input directory can be read, parsed and
\* archived, given what the output directory held and what its write is
\* let to do
Archivable(e, wrs, before) ==
    /\ e.what.kind = "file"
    /\ HasSuffix(e.name, ".go")
    /\ e.what.readable
    /\ ~ParseFile(e.what.src, {ParseComments}).err
    /\ before[OutPath(e.name)].kind # "dir"
    /\ wrs[e.name].kind = "ok"

Candidate(e) == e.what.kind = "file" /\ HasSuffix(e.name, ".go")

NamesOf(es) == [i \in 1..Len(es) |-> es[i].name]

\* C27: WriteASTFiles goes through every .go file of the input directory:
\* the ones that can be read, parsed and archived are generated, each other
\* one is warned about, in directory order.  It returns an error exactly
\* when the output directory cannot be created, the input directory cannot
\* be read, or no file was archived.
C27_ContinuesPastFailures ==
    last.op = "WriteASTFiles" =>
        LET good == SelectSeq(last.entries, LAMBDA e : Archivable(e, last.wrs, last.before))
            bad  == SelectSeq(last.entries,
                              LAMBDA e : Candidate(e) /\ ~Archivable(e, last.wrs, last.before))
        IN  /\ (last.err # NoError) <=> (last.mkErr \/ last.readErr \/ Len(good) = 0)
            /\ ~(last.mkErr \/ last.readErr) =>
                  /\ last.generated = NamesOf(good)
                  /\ last.warned = NamesOf(bad)
                  /\ \A i \in 1..Len(good) :
                        fs[OutPath(good[i].name)].kind = "file"

\* the first file does not parse, the second is archived and the third
\* cannot be written: two warnings, one archive, no error
C27_Witness ==
    /\ last.op = "WriteASTFiles"
    /\ last.warned = <<"a.go", "sub.go">>
    /\ last.generated = <<"b.go">>
    /\ last.err = NoError
    /\ fs["b.asta"].kind = "file"
    /\ \E i \in 1..Len(last.entries) :
          /\ last.entries[i].name = "a.go"
          /\ last.entries[i].what.readable
          /\ ParseFile(last.entries[i].what.src, {ParseComments}).err

\* the elements of a list, and the node types that occur in a source file
\* that parses
Elems(ss) == {ss[i] : i \in 1..Len(ss)}
OccurIn(src) == Elems(FileNodes(ParseFile(src, {ParseComments}).file))

\* C28: in a report, CoveredNodes and MissingNodes are disjoint and make up
\* the catalog together, CoveredNodeTypes + len(MissingNodes) is
\* TotalNodeTypes, and a catalog type is covered exactly when it is
\* *ast.Package or occurs in a file that was analysed.
C28_CoveragePartition ==
    (last.op = "GenerateReport" /\ last.err = NoError) =>
        LET r == Deref(last.report)
            analysed == {i \in 1..Len(last.files) :
                           AnalyzeFile(last.files[i].path, last.files[i].src).err = NoError}
        IN  /\ Elems(r.CoveredNodes) \cap Elems(r.MissingNodes) = {}
            /\ Elems(r.CoveredNodes) \cup Elems(r.MissingNodes) = Elems(GetAllNodeTypes)
            /\ r.CoveredNodeTypes + Len(r.MissingNodes) = r.TotalNodeTypes
            /\ \A t \in Elems(GetAllNodeTypes) :
                  t \in Elems(r.CoveredNodes)
                    <=> (t = "*ast.Package"
                           \/ \E i \in analysed : t \in OccurIn(last.files[i].src))

\* the tree a fresh parse of the archive's stored text with its stored mode
\* gives
Reparsed(a) == ParseFile(a.bundle.SourceCode, a.bundle.ParseMode).file

\* the consumer's last call was a query on an archive without a snapshot
OnNoSnapshot == archive # Nil /\ last.op \in Queries /\ Deref(archive).bundle.CleanedAST = Nil

\* what the queries that read the snapshot or the metadata return
SnapshotAndMetadataQueries(a) ==
    /\ last.op = "NodeCount" => last.ret = 0
    /\ last.op = "GetImports" => last.ret = <<>>
    /\ last.op = "ImportCount" => last.ret = a.bundle.Metadata["num_imports"]
    /\ last.op = "DeclarationCount" => last.ret = a.bundle.Metadata["num_declarations"]

\* the queries that parse the stored text have succeeded, with what the
\* tree t holds
ReparseQueriesSucceed(t) ==
    /\ last.op = "GetAST" => last.ret.err = NoError /\ last.ret.file = Ptr(t)
    /\ last.op = "ExtractFunctions" =>
          /\ last.ret.err = NoError
          /\ last.ret.funcs = SelectSeq(t.Decls, LAMBDA d : d.Kind = "*ast.FuncDecl")
    /\ last.op = "ExtractTypes" =>
          /\ last.ret.err = NoError
          /\ last.ret.types = SelectSeq(t.Decls, LAMBDA d : d.Kind = "*ast.GenDecl(type)")
    /\ last.op = "FindNodesByType" =>
          /\ last.ret.err = NoError
          /\ last.ret.nodes = SelectSeq(Inspect(t), LAMBDA n : n = last.nodeType)

\* C29 as stated: on a loaded archive that has no structural snapshot,
\* NodeCount returns 0 and GetImports returns nothing, whatever the stored
\* source holds; ImportCount and DeclarationCount return the values of the
\* metadata; and GetAST, ExtractFunctions, ExtractTypes and FindNodesByType
\* succeed, with what a fresh parse of the stored text holds.
C29_NoSnapshotQueries ==
    OnNoSnapshot =>
       /\ SnapshotAndMetadataQueries(Deref(archive))
       /\ ReparseQueriesSucceed(Reparsed(Deref(archive)))

\* C29, amended: on a loaded archive that has no structural snapshot,
\* NodeCount returns 0, GetImports returns nothing, ImportCount and
\* DeclarationCount return the values of the metadata; GetAST,
\* ExtractFunctions, ExtractTypes and FindNodesByType succeed, with what a
\* fresh parse of the stored text holds, when the stored text parses, and
\* return the parser's error, wrapped, when it does not.
C29_NoSnapshotQueriesIfTextParses ==
    OnNoSnapshot =>
       LET a == Deref(archive)
           p == ParseFile(a.bundle.SourceCode, a.bundle.ParseMode)
       IN  /\ SnapshotAndMetadataQueries(a)
           /\ ~p.err => ReparseQueriesSucceed(p.file)
           /\ (p.err /\ last.op \in {"GetAST", "ExtractFunctions", "ExtractTypes",
                                     "FindNodesByType"}) =>
                 last.ret.err = "failed to reconstruct AST"

\* the consumer has asked an archive without a snapshot for its imports and
\* got none, although the stored source holds an import declaration and the
\* metadata count one
C29_Witness ==
    /\ archive # Nil
    /\ Deref(archive).bundle.CleanedAST = Nil
    /\ last.op = "GetImports"
    /\ last.ret = <<>>
    /\ ImportCount(Deref(archive)) = 1
    /\ Len(Imports(Reparsed(Deref(archive)))) = 1

\* C30: DeepCompareAST is a total structural equality: it returns true for
\* two nil arguments, false when exactly one argument is nil or when the two
\* nodes are of different kinds, and for every node t of a parsed tree,
\* absent optional children or not, DeepCompareAST(t, t) ends normally and
\* returns true.
C30_TotalStructuralEquality ==
    last.op = "DeepCompareAST" =>
       /\ last.panic = NoPanic
       /\ (last.a = Nil /\ last.b = Nil) => last.ret
       /\ (last.a = Nil) # (last.b = Nil) => ~last.ret
       /\ (last.a # Nil /\ last.b # Nil /\ Deref(last.a).type # Deref(last.b).type) =>
             ~last.ret
       /\ last.a = last.b => last.ret

====
